---- MODULE Spec2Model ----
(***************************************************************************)
(* Model of the dataset post-processor (src/post_processor.py): the        *)
(* scanner/matcher, the two-phase renamer, the unpaired handler, the tag   *)
(* normalizer and the composite auto_post_process guarded by the           *)
(* processor's lock.                                                       *)
(*                                                                         *)
(* File names are sequences of one-character strings, so that splitext,    *)
(* lower(), sorted() and the f-string name construction of the code are    *)
(* computed character by character.  A directory is a function from the    *)
(* names it holds to inode numbers; `data` maps an inode to its text.      *)
(***************************************************************************)
EXTENDS Integers, Sequences, FiniteSets, TLC

\* ------------------------------------------------------------------ bounds

\* Largest number of files the dataset folder holds initially.
MaxFiles == 4
\* Largest length of a hand-built records list given to rename_files.
MaxRecs == 1
\* Largest number of files the folder holds before auto_post_process runs.
MaxAutoFiles == 3
\* Largest number of files the folder holds in the runs under a fair scheduler.
MaxFairFiles == 2
\* Number of I/O operations the environment may make fail (permissions, ...).
MaxFaults == 1
\* Largest length of a caption text given to auto_standardize_tags.
MaxTextLen == 4
\* Largest length of a caption text given to clean_and_edit_tags.
MaxEditLen == 5

\* ------------------------------------------------------------ Python strings

\* Code points of the characters that occur in the modelled names and texts.
CodePoint(c) ==
    CASE c = " " -> 32 [] c = "(" -> 40 [] c = ")" -> 41 [] c = "," -> 44
      [] c = "-" -> 45 [] c = "." -> 46
      [] c = "0" -> 48 [] c = "1" -> 49 [] c = "2" -> 50 [] c = "3" -> 51
      [] c = "4" -> 52 [] c = "5" -> 53 [] c = "6" -> 54 [] c = "7" -> 55
      [] c = "8" -> 56 [] c = "9" -> 57
      [] c = "G" -> 71 [] c = "J" -> 74 [] c = "N" -> 78 [] c = "P" -> 80
      [] c = "T" -> 84
      [] c = "X" -> 88 [] c = "\\" -> 92 [] c = "_" -> 95
      [] c = "a" -> 97 [] c = "b" -> 98 [] c = "e" -> 101 [] c = "g" -> 103
      [] c = "j" -> 106 [] c = "m" -> 109 [] c = "n" -> 110 [] c = "p" -> 112
      [] c = "t" -> 116 [] c = "x" -> 120
      [] c = "\n" -> 10

\* str.lower() on one character.
LowerChar(c) ==
    CASE c = "G" -> "g" [] c = "J" -> "j" [] c = "N" -> "n" [] c = "P" -> "p"
      [] c = "T" -> "t" [] c = "X" -> "x" [] OTHER -> c

\* A Python str: its characters in order.
PyStr == Seq(STRING)

\* str.lower()
Lower[s \in PyStr] == [i \in 1..Len(s) |-> LowerChar(s[i])]

\* Python's < on str: lexicographic by code point, a proper prefix is smaller.
StrLess(s, t) ==
    \E i \in 1..(Len(s) + 1) :
        /\ i <= Len(t)
        /\ \A j \in 1..(i - 1) : s[j] = t[j]
        /\ \/ i = Len(s) + 1
           \/ CodePoint(s[i]) < CodePoint(t[i])

\* sorted() of a list of distinct strings: the string with i-1 smaller ones
\* comes i-th.
Sorted[S \in SUBSET PyStr] ==
    [i \in 1..Cardinality(S) |->
        CHOOSE x \in S : Cardinality({y \in S : StrLess(y, x)}) = i - 1]

\* str.endswith()
EndsWith(s, suf) ==
    /\ Len(s) >= Len(suf)
    /\ SubSeq(s, Len(s) - Len(suf) + 1, Len(s)) = suf

\* str(n) for n >= 0, as the f-strings of the code format an index.
Digit(d) == <<"0", "1", "2", "3", "4", "5", "6", "7", "8", "9">>[d + 1]
Str[n \in Nat] == IF n < 10 THEN <<Digit(n)>> ELSE Str[n \div 10] \o <<Digit(n % 10)>>

\* os.path.splitext on a name without directory part: the extension starts at
\* the last dot, unless that dot only follows leading dots.
Splitext[p \in PyStr] ==
    LET dots == {i \in 1..Len(p) : p[i] = "."}
        last == CHOOSE i \in dots : \A j \in dots : j <= i
    IN  IF dots = {} \/ (\A j \in 1..(last - 1) : p[j] = ".")
        THEN [root |-> p, ext |-> <<>>]
        ELSE [root |-> SubSeq(p, 1, last - 1), ext |-> SubSeq(p, last, Len(p))]

\* None, and the empty path that Python's truth test treats alike.
None == <<>>

DotTxt == <<".", "t", "x", "t">>

\* self.image_extensions
image_extensions ==
    { <<".", "j", "p", "g">>, <<".", "j", "p", "e", "g">>, <<".", "p", "n", "g">>,
      <<".", "g", "i", "f">>, <<".", "b", "m", "p">>, <<".", "w", "e", "b", "p">> }

\* The image test of the scanner.
IsImage(f) == Lower[Splitext[f].ext] \in image_extensions
\* The caption test of the scanner.
IsText(f) == EndsWith(Lower[f], DotTxt)

\* --------------------------------------------------------------- the folders

\* Names a dataset folder may hold before the processor runs.
N_a_jpg      == <<"a", ".", "j", "p", "g">>
N_a_PNG      == <<"a", ".", "P", "N", "G">>
N_a_txt      == <<"a", ".", "t", "x", "t">>
N_a_jpg_txt  == <<"a", ".", "j", "p", "g", ".", "t", "x", "t">>
N_b_TXT      == <<"b", ".", "T", "X", "T">>
N_temp_1_jpg == <<"t", "e", "m", "p", "_", "1", ".", "j", "p", "g">>
N_temp_1_txt == <<"t", "e", "m", "p", "_", "1", ".", "t", "x", "t">>
N_1_txt      == <<"1", ".", "t", "x", "t">>

NameUniverse ==
    << N_a_jpg, N_a_PNG, N_a_txt, N_a_jpg_txt, N_b_TXT,
       N_temp_1_jpg, N_temp_1_txt, N_1_txt >>

Names == {NameUniverse[i] : i \in 1..Len(NameUniverse)}

\* The inode a file of the initial folder has: its place in NameUniverse.
InodeOf(n) == CHOOSE i \in 1..Len(NameUniverse) : NameUniverse[i] = n

\* Inodes of the files that start inside the unpaired subfolder.
UnpInode(n) == Len(NameUniverse) + InodeOf(n)

Folders == {S \in SUBSET Names : Cardinality(S) <= MaxFiles}

AutoFolders == {S \in SUBSET Names : Cardinality(S) <= MaxAutoFiles}

MkDir(S) == [n \in S |-> InodeOf(n)]


\* ------------------------------------------------------------------- state

VARIABLES
    folderExists,    \* os.path.exists(folder_path)
    fs,              \* the dataset folder: name -> inode
    unpExists,       \* the unpaired subfolder exists
    unp,             \* the unpaired subfolder: name -> inode
    data,            \* inode -> text of the file
    lock,            \* self._lock: 0 when free, else the thread holding it
    faults,          \* I/O failures the environment may still inject
    pc,              \* per thread: position in the running operation
    op,              \* per thread: the entry point that was called
    file_infos,      \* per thread: the records list in hand
    unpaired_files,  \* per thread: the unpaired caption paths in hand
    temp_renames,    \* per thread: rename_files' Phase-1 list
    final_renames,   \* per thread: rename_files' Phase-2 list
    k,               \* per thread: index of the running loop
    result,          \* per thread: ProcessResult of the running sub-operation
    overall,         \* per thread: overall_result of auto_post_process
    snap,            \* per thread: the folders as they were when the call began
    txt_files,       \* per thread: manual_tag_process' list of caption paths
    edit_args,       \* per thread: the arguments of the manual_tag_process call
    is_downloading,  \* danbooru_downloader.is_downloading
    status,          \* danbooru_downloader.status
    file_count,      \* danbooru_downloader.file_count
    download_process, \* danbooru_downloader.download_process: None or a process
    procs,           \* per gallery-dl process: not started, running, exited
    workers,         \* per download thread: position and locals
    script,          \* per thread: the downloader calls it still makes
    calls            \* the downloader calls that returned, with what they returned

vars == << folderExists, fs, unpExists, unp, data, lock, faults, pc, op,
           file_infos, unpaired_files, temp_renames, final_renames, k, result,
           overall, snap, txt_files, edit_args, is_downloading, status,
           file_count, download_process, procs, workers, script, calls >>

diskVars  == << folderExists, fs, unpExists, unp, data >>
localVars == << file_infos, unpaired_files, temp_renames, final_renames, k,
                result, overall >>
editVars  == << txt_files, edit_args >>
dlVars    == << is_downloading, status, file_count, download_process, procs,
                workers, script, calls >>

Threads == {1, 2}

\* manual_tag_process not called: no tag to remove and none to add.
NoEditArgs ==
    [ remove_tags |-> {}, remove_containing |-> {}, add_tags |-> <<>>,
      add_tags_set |-> <<>> ]

\* ProcessResult(success=False, message="")
NewResult ==
    [ success |-> FALSE, processed_files |-> 0, renamed_files |-> 0,
      standardized_tags |-> 0, unpaired_files |-> 0, errors |-> <<>> ]

\* ---------------------------------------------------------- Scanner/Matcher

\* The FileInfo dataclass.
FileInfo ==
    [ image_path : PyStr, text_path : PyStr, base_name : PyStr, is_paired : BOOLEAN ]

\* MatchImage with the two candidates tried in the opposite order.
MatchImage_FullNameFirst(img, texts) ==
    LET base_name  == Splitext[img].root
        txt_name_1 == base_name \o DotTxt
        txt_name_2 == img \o DotTxt
    IN  IF txt_name_2 \in texts
        THEN [ image_path |-> img, text_path |-> txt_name_2,
               base_name |-> base_name, is_paired |-> TRUE ]
        ELSE IF txt_name_1 \in texts
        THEN [ image_path |-> img, text_path |-> txt_name_1,
               base_name |-> base_name, is_paired |-> TRUE ]
        ELSE [ image_path |-> img, text_path |-> None,
               base_name |-> base_name, is_paired |-> FALSE ]

\* MatchImage that takes the sibling-stem caption without looking for it.
MatchImage_NoExistenceTest(img, texts) ==
    LET base_name  == Splitext[img].root
        txt_name_1 == base_name \o DotTxt
    IN  [ image_path |-> img, text_path |-> txt_name_1,
          base_name |-> base_name, is_paired |-> TRUE ]

\* The FileInfo the matching loop builds for one image.
MatchImage(img, texts) ==
    LET base_name  == Splitext[img].root
        txt_name_1 == base_name \o DotTxt
        txt_name_2 == img \o DotTxt
    IN  IF txt_name_1 \in texts
        THEN [ image_path |-> img, text_path |-> txt_name_1,
               base_name |-> base_name, is_paired |-> TRUE ]
        ELSE IF txt_name_2 \in texts
        THEN [ image_path |-> img, text_path |-> txt_name_2,
               base_name |-> base_name, is_paired |-> TRUE ]
        ELSE [ image_path |-> img, text_path |-> None,
               base_name |-> base_name, is_paired |-> FALSE ]

\* UnpairedTexts that counts a caption as used only in its sibling-stem form.
UnpairedTexts_SiblingOnly(texts, paired_files) ==
    LET used_texts == { paired_files[i].base_name \o DotTxt :
                          i \in {j \in 1..Len(paired_files) : paired_files[j].is_paired} }
    IN  SelectSeq(texts, LAMBDA txt : txt \notin used_texts)

\* The text files no paired record uses, in the order of `texts`.
UnpairedTexts(texts, paired_files) ==
    LET used_texts == { paired_files[i].text_path :
                          i \in {j \in 1..Len(paired_files) : paired_files[j].is_paired} }
    IN  SelectSeq(texts, LAMBDA txt : txt \notin used_texts)

\* Lines 139-161: the matching loop over the first n images, each record
\* appended to paired_files.
MatchLoop[images \in Seq(PyStr), texts \in Seq(PyStr), n \in Nat] ==
    IF n = 0 THEN <<>>
    ELSE Append(MatchLoop[images, texts, n - 1],
                MatchImage(images[n], {texts[j] : j \in 1..Len(texts)}))

\* Lines 163-181: the pair the scan returns, paired_files and the captions
\* no record uses.
ScanResult[texts \in Seq(PyStr), paired_files \in Seq(FileInfo)] ==
    [ paired_files |-> paired_files,
      unpaired_files |-> UnpairedTexts(texts, paired_files) ]

\* Lines 135-181 on the two sorted lists.
ScanLists[images \in Seq(PyStr), texts \in Seq(PyStr)] ==
    ScanResult[texts, MatchLoop[images, texts, Len(images)]]

\* scan_and_match_files on an existing folder with the given directory listing.
scan_and_match_files(files) ==
    ScanLists[Sorted[{f \in files : IsImage(f)}], Sorted[{f \in files : IsText(f)}]]

\* ------------------------------------------------------------------ Renamer

\* self.rename_start_index
rename_start_index == 1

TempPrefix == <<"t", "e", "m", "p", "_">>

\* The Phase-1 entries (source, temporary name) of the record at 0-based place i.
TempEntries(i, file_info) ==
    LET new_index == rename_start_index + i
        image_ext == Splitext[file_info.image_path].ext
    IN  (IF file_info.image_path # None
         THEN << << file_info.image_path, TempPrefix \o Str[new_index] \o image_ext >> >>
         ELSE <<>>)
        \o
        (IF file_info.text_path # None
         THEN << << file_info.text_path, TempPrefix \o Str[new_index] \o DotTxt >> >>
         ELSE <<>>)

\* FinalEntries whose final names count from i, the start index forgotten.
FinalEntries_NoStart(i, file_info) ==
    LET new_index == rename_start_index + i
        image_ext == Splitext[file_info.image_path].ext
    IN  (IF file_info.image_path # None
         THEN << << TempPrefix \o Str[new_index] \o image_ext, Str[i] \o image_ext >> >>
         ELSE <<>>)
        \o
        (IF file_info.text_path # None
         THEN << << TempPrefix \o Str[new_index] \o DotTxt, Str[i] \o DotTxt >> >>
         ELSE <<>>)

\* The Phase-2 entries (temporary name, final name) of the record at place i.
FinalEntries(i, file_info) ==
    LET new_index == rename_start_index + i
        image_ext == Splitext[file_info.image_path].ext
    IN  (IF file_info.image_path # None
         THEN << << TempPrefix \o Str[new_index] \o image_ext, Str[new_index] \o image_ext >> >>
         ELSE <<>>)
        \o
        (IF file_info.text_path # None
         THEN << << TempPrefix \o Str[new_index] \o DotTxt, Str[new_index] \o DotTxt >> >>
         ELSE <<>>)

RECURSIVE BuildTempRenames(_, _)
BuildTempRenames(infos, n) ==
    IF n = 0 THEN <<>>
    ELSE BuildTempRenames(infos, n - 1) \o TempEntries(n - 1, infos[n])

RECURSIVE BuildFinalRenames(_, _)
BuildFinalRenames(infos, n) ==
    IF n = 0 THEN <<>>
    ELSE BuildFinalRenames(infos, n - 1) \o FinalEntries(n - 1, infos[n])

\* os.rename inside one directory (POSIX): fails when the source is missing,
\* otherwise the source's file replaces whatever holds the target name.
RenameOk(dir, src) == src \in DOMAIN dir

OsRename(dir, src, dst) ==
    IF src = dst THEN dir
    ELSE [n \in (DOMAIN dir \ {src}) \cup {dst} |-> IF n = dst THEN dir[src] ELSE dir[n]]

\* The outcomes the environment allows for one I/O operation.
FaultChoices == IF faults > 0 THEN {TRUE, FALSE} ELSE {FALSE}


\* Per-thread update of a thread-indexed variable.
Upd(f, t, v) == [f EXCEPT ![t] = v]

AddError(r, kind, path) == [r EXCEPT !.errors = Append(@, <<kind, path>>)]

\* rename_files, lines 194-230: fresh result and the two rename lists.
RenameBegin(t) ==
    /\ pc[t] = "rename_begin"
    /\ result' = Upd(result, t, NewResult)
    /\ temp_renames' = Upd(temp_renames, t,
                           BuildTempRenames(file_infos[t], Len(file_infos[t])))
    /\ final_renames' = Upd(final_renames, t,
                            BuildFinalRenames(file_infos[t], Len(file_infos[t])))
    /\ k' = Upd(k, t, 1)
    /\ pc' = Upd(pc, t, "rename_temp")
    /\ UNCHANGED << dlVars, editVars, diskVars, lock, faults, op, file_infos, unpaired_files,
                    overall, snap >>

\* RenameTemp that gives Phase 1 up at the first rename that fails.
RenameTemp_StopsAtError(t) ==
    /\ pc[t] = "rename_temp"
    /\ \/ /\ k[t] <= Len(temp_renames[t])
          /\ \E fault \in FaultChoices :
               LET old_path  == temp_renames[t][k[t]][1]
                   temp_path == temp_renames[t][k[t]][2]
                   ok == ~fault /\ folderExists /\ RenameOk(fs, old_path)
               IN  /\ fs' = IF ok THEN OsRename(fs, old_path, temp_path) ELSE fs
                   /\ result' = Upd(result, t,
                                    IF ok
                                    THEN [result[t] EXCEPT !.renamed_files = @ + 1]
                                    ELSE AddError(result[t], "temp_rename", old_path))
                   /\ faults' = IF fault THEN faults - 1 ELSE faults
                   /\ k' = Upd(k, t, IF ok THEN k[t] + 1 ELSE 1)
                   /\ pc' = Upd(pc, t, IF ok THEN "rename_temp" ELSE "rename_final")
       \/ /\ k[t] > Len(temp_renames[t])
          /\ k' = Upd(k, t, 1)
          /\ pc' = Upd(pc, t, "rename_final")
          /\ UNCHANGED << fs, result, faults >>
    /\ UNCHANGED << dlVars, editVars, folderExists, unpExists, unp, data, lock, op, file_infos,
                    unpaired_files, temp_renames, final_renames, overall, snap >>

\* rename_files, lines 233-240: one iteration of the Phase-1 loop, or its end.
RenameTemp(t) ==
    /\ pc[t] = "rename_temp"
    /\ \/ /\ k[t] <= Len(temp_renames[t])
          /\ \E fault \in FaultChoices :
               LET old_path  == temp_renames[t][k[t]][1]
                   temp_path == temp_renames[t][k[t]][2]
                   ok == ~fault /\ folderExists /\ RenameOk(fs, old_path)
               IN  /\ fs' = IF ok THEN OsRename(fs, old_path, temp_path) ELSE fs
                   /\ result' = Upd(result, t,
                                    IF ok
                                    THEN [result[t] EXCEPT !.renamed_files = @ + 1]
                                    ELSE AddError(result[t], "temp_rename", old_path))
                   /\ faults' = IF fault THEN faults - 1 ELSE faults
          /\ k' = Upd(k, t, k[t] + 1)
          /\ pc' = pc
       \/ /\ k[t] > Len(temp_renames[t])
          /\ k' = Upd(k, t, 1)
          /\ pc' = Upd(pc, t, "rename_final")
          /\ UNCHANGED << fs, result, faults >>
    /\ UNCHANGED << dlVars, editVars, folderExists, unpExists, unp, data, lock, op, file_infos,
                    unpaired_files, temp_renames, final_renames, overall, snap >>

\* rename_files, lines 243-249: one iteration of the Phase-2 loop, or its end.
RenameFinal(t) ==
    /\ pc[t] = "rename_final"
    /\ \/ /\ k[t] <= Len(final_renames[t])
          /\ \E fault \in FaultChoices :
               LET temp_path  == final_renames[t][k[t]][1]
                   final_path == final_renames[t][k[t]][2]
                   ok == ~fault /\ folderExists /\ RenameOk(fs, temp_path)
               IN  /\ fs' = IF ok THEN OsRename(fs, temp_path, final_path) ELSE fs
                   /\ result' = Upd(result, t,
                                    IF ok THEN result[t]
                                    ELSE AddError(result[t], "final_rename", temp_path))
                   /\ faults' = IF fault THEN faults - 1 ELSE faults
          /\ k' = Upd(k, t, k[t] + 1)
          /\ pc' = pc
       \/ /\ k[t] > Len(final_renames[t])
          /\ k' = Upd(k, t, 1)
          /\ pc' = Upd(pc, t, "rename_end")
          /\ UNCHANGED << fs, result, faults >>
    /\ UNCHANGED << dlVars, editVars, folderExists, unpExists, unp, data, lock, op, file_infos,
                    unpaired_files, temp_renames, final_renames, overall, snap >>

\* rename_files, lines 251-265: success flag and return; auto_post_process,
\* lines 532-533, takes the counter and the errors over.
RenameEnd(t) ==
    /\ pc[t] = "rename_end"
    /\ result' = Upd(result, t, [result[t] EXCEPT !.success = (result[t].errors = <<>>)])
    /\ \/ /\ op[t] = "rename"
          /\ pc' = Upd(pc, t, "done")
          /\ overall' = overall
       \/ /\ op[t] = "auto"
          /\ overall' = Upd(overall, t,
                            [overall[t] EXCEPT !.renamed_files = result[t].renamed_files,
                                               !.errors = @ \o result[t].errors])
          /\ pc' = Upd(pc, t, "scan2")
    /\ UNCHANGED << dlVars, editVars, diskVars, lock, faults, op, file_infos, unpaired_files,
                    temp_renames, final_renames, k, snap >>

\* ScanFolder that creates a missing folder instead of raising.
ScanFolder_CreatesFolder(t) ==
    /\ pc[t] = "scan"
    /\ folderExists' = TRUE
    /\ file_infos' = Upd(file_infos, t, scan_and_match_files(DOMAIN fs).paired_files)
    /\ unpaired_files' = Upd(unpaired_files, t,
                             scan_and_match_files(DOMAIN fs).unpaired_files)
    /\ pc' = Upd(pc, t, "done")
    /\ UNCHANGED << dlVars, editVars, fs, unpExists, unp, data, lock, faults, op, temp_renames,
                    final_renames, k, result, overall, snap >>

\* scan_and_match_files called on its own, lines 123-181.
ScanFolder(t) ==
    /\ pc[t] = "scan"
    /\ \/ /\ ~folderExists
          /\ pc' = Upd(pc, t, "raised")
          /\ UNCHANGED << file_infos, unpaired_files >>
       \/ /\ folderExists
          /\ file_infos' = Upd(file_infos, t, scan_and_match_files(DOMAIN fs).paired_files)
          /\ unpaired_files' = Upd(unpaired_files, t,
                                   scan_and_match_files(DOMAIN fs).unpaired_files)
          /\ pc' = Upd(pc, t, "done")
    /\ UNCHANGED << dlVars, editVars, diskVars, lock, faults, op, temp_renames, final_renames,
                    k, result, overall, snap >>

\* ------------------------------------------------------------ Tag Normalizer

\* Characters str.strip() removes.
IsSpace(c) == c \in {" ", "\n"}

\* str.strip()
Strip[s \in PyStr] ==
    IF s = <<>> THEN s
    ELSE IF IsSpace(s[1]) THEN Strip[Tail(s)]
    ELSE IF IsSpace(s[Len(s)]) THEN Strip[SubSeq(s, 1, Len(s) - 1)]
    ELSE s

\* str.split(c) for a one-character separator.
Split[s \in PyStr, c \in STRING] ==
    IF \A i \in 1..Len(s) : s[i] # c THEN <<s>>
    ELSE LET i == CHOOSE j \in 1..Len(s) : s[j] = c /\ \A h \in 1..(j - 1) : s[h] # c
         IN  <<SubSeq(s, 1, i - 1)>> \o Split[SubSeq(s, i + 1, Len(s)), c]

\* [tag.strip() for tag in parts if tag.strip()]
StripAll[parts \in Seq(PyStr)] ==
    SelectSeq([i \in 1..Len(parts) |-> Strip[parts[i]]], LAMBDA tag : tag # <<>>)

\* Lines 289-295: the tags of one line, a line with a comma split on commas.
TagsOfLine[line \in PyStr] ==
    IF \E i \in 1..Len(line) : line[i] = ","
    THEN StripAll[Split[line, ","]]
    ELSE IF Strip[line] # <<>> THEN <<Strip[line]>> ELSE <<>>

\* Lines 286-295: the tags of the lines, in order.
LineTags[lines \in Seq(PyStr)] ==
    IF lines = <<>> THEN <<>>
    ELSE LineTags[SubSeq(lines, 1, Len(lines) - 1)] \o TagsOfLine[lines[Len(lines)]]

\* ReplaceChar that leaves the hyphen alone.
ReplaceChar_UnderscoreOnly(c) == IF c = "_" THEN " " ELSE c

\* What the two replace() calls make of one character.
ReplaceChar(c) == IF c \in {"_", "-"} THEN " " ELSE c

\* tag.replace('_', ' ').replace('-', ' ')
ReplaceSeparators[tag \in PyStr] == [i \in 1..Len(tag) |-> ReplaceChar(tag[i])]

\* Unescaped without the look-behind: every parenthesis matches.
Unescaped_NoLookBehind(tag, paren, n) == tag[n] = paren

\* The pattern (?<!\\)P at place n of tag: the parenthesis P, not preceded by
\* a backslash.
Unescaped(tag, paren, n) == tag[n] = paren /\ (n = 1 \/ tag[n - 1] # "\\")

\* re.sub(r'(?<!\\)P', r'\P', tag) for the parenthesis P, on the first n
\* characters of tag.
EscapeParen[tag \in PyStr, paren \in STRING, n \in Nat] ==
    IF n = 0 THEN <<>>
    ELSE EscapeParen[tag, paren, n - 1] \o
         (IF Unescaped(tag, paren, n) THEN <<"\\", paren>> ELSE <<tag[n]>>)

\* The closing parenthesis escaped in a tag whose opening ones already are.
EscapeClosing[tag \in PyStr] == EscapeParen[tag, ")", Len(tag)]

\* Lines 305-306: both parentheses escaped, the opening one first.
EscapeParens[tag \in PyStr] == EscapeClosing[EscapeParen[tag, "(", Len(tag)]]

\* Lines 299-307: separators replaced, then parentheses escaped, tag by tag.
ProcessTags[tags \in Seq(PyStr)] ==
    [i \in 1..Len(tags) |-> EscapeParens[ReplaceSeparators[tags[i]]]]

\* The seen-set loop: first occurrences, in order.
Dedup[tags \in Seq(PyStr)] ==
    IF tags = <<>> THEN <<>>
    ELSE IF \E i \in 1..(Len(tags) - 1) : tags[i] = tags[Len(tags)]
         THEN Dedup[SubSeq(tags, 1, Len(tags) - 1)]
         ELSE Append(Dedup[SubSeq(tags, 1, Len(tags) - 1)], tags[Len(tags)])

\* ', '.join(tags)
Join[tags \in Seq(PyStr)] ==
    IF tags = <<>> THEN <<>>
    ELSE IF Len(tags) = 1 THEN tags[1]
    ELSE Join[SubSeq(tags, 1, Len(tags) - 1)] \o <<",", " ">> \o tags[Len(tags)]

\* auto_standardize_tags
auto_standardize_tags[tags_text \in PyStr] ==
    IF tags_text = <<>> \/ Strip[tags_text] = <<>> THEN <<>>
    ELSE LET lines     == Split[tags_text, "\n"]
             tags      == LineTags[lines]
             processed == ProcessTags[tags]
             cleaned   == StripAll[processed]
             unique    == Dedup[cleaned]
         IN  Join[unique]

\* standardize_tags, lines 393-396: fresh result.
StandardizeBegin(t) ==
    /\ pc[t] = "standardize_begin"
    /\ result' = Upd(result, t, NewResult)
    /\ k' = Upd(k, t, 1)
    /\ pc' = Upd(pc, t, "standardize_loop")
    /\ UNCHANGED << dlVars, editVars, diskVars, lock, faults, op, file_infos, unpaired_files,
                    temp_renames, final_renames, overall, snap >>

\* What one I/O failure does to the rewrite of a caption: the read or the
\* open for writing fails (the text stays), or the write fails after the
\* open truncated the file.
RewriteOutcomes == IF faults > 0 THEN {"ok", "open_failed", "write_failed"} ELSE {"ok"}

\* standardize_tags, lines 398-419: one iteration of the loop, or its end.
StandardizeStep(t) ==
    /\ pc[t] = "standardize_loop"
    /\ \/ /\ k[t] <= Len(file_infos[t])
          /\ LET text_path == file_infos[t][k[t]].text_path
                 skip == text_path = None \/ ~folderExists \/ text_path \notin DOMAIN fs
             IN  \E outcome \in (IF skip THEN {"skip"} ELSE RewriteOutcomes) :
                   /\ data' = CASE outcome = "ok" ->
                                     [data EXCEPT ![fs[text_path]] = auto_standardize_tags[@]]
                                [] outcome = "write_failed" ->
                                     [data EXCEPT ![fs[text_path]] = <<>>]
                                [] OTHER -> data
                   /\ result' = Upd(result, t,
                                    CASE outcome = "ok" ->
                                           [result[t] EXCEPT !.standardized_tags = @ + 1]
                                      [] outcome = "skip" -> result[t]
                                      [] OTHER -> AddError(result[t], "standardize", text_path))
                   /\ faults' = IF outcome \in {"open_failed", "write_failed"}
                                THEN faults - 1 ELSE faults
          /\ k' = Upd(k, t, k[t] + 1)
          /\ pc' = pc
       \/ /\ k[t] > Len(file_infos[t])
          /\ k' = Upd(k, t, 1)
          /\ pc' = Upd(pc, t, "standardize_end")
          /\ UNCHANGED << data, result, faults >>
    /\ UNCHANGED << dlVars, editVars, folderExists, fs, unpExists, unp, lock, op, file_infos,
                    unpaired_files, temp_renames, final_renames, overall, snap >>

\* standardize_tags, lines 421-435: success flag and return; auto_post_process,
\* lines 539-540, takes the counter and the errors over.
StandardizeEnd(t) ==
    /\ pc[t] = "standardize_end"
    /\ result' = Upd(result, t, [result[t] EXCEPT !.success = (result[t].errors = <<>>)])
    /\ \/ /\ op[t] = "standardize"
          /\ pc' = Upd(pc, t, "done")
          /\ overall' = overall
       \/ /\ op[t] = "auto"
          /\ overall' = Upd(overall, t,
                            [overall[t] EXCEPT !.standardized_tags = result[t].standardized_tags,
                                               !.errors = @ \o result[t].errors])
          /\ pc' = Upd(pc, t, "summary")
    /\ UNCHANGED << dlVars, editVars, diskVars, lock, faults, op, file_infos, unpaired_files,
                    temp_renames, final_renames, k, snap >>

\* --------------------------------------------------------------- Tag Editor

\* Set[str]
TagSets == SUBSET PyStr

\* `sub in s` on str.
Contains(sub, s) ==
    \E i \in 0..(Len(s) - Len(sub)) : SubSeq(s, i + 1, i + Len(sub)) = sub

\* ShouldRemove that compares the whole tag instead of searching inside it.
ShouldRemove_WholeTag(tag, remove_containing) == tag \in remove_containing

\* Lines 354-358: the tag contains a member of remove_containing.
ShouldRemove(tag, remove_containing) ==
    \E contain_text \in remove_containing : Contains(contain_text, tag)

\* Lines 347-361: the exact removal, then the removal by content.
RemoveTags[tags \in Seq(PyStr), remove_tags \in TagSets, remove_containing \in TagSets] ==
    SelectSeq(SelectSeq(tags, LAMBDA tag : tag \notin remove_tags),
              LAMBDA tag : ~ShouldRemove(tag, remove_containing))

\* Line 367: new_tag not in existing_tags_set.
IsNewTag(tags, new_tag) == \A i \in 1..Len(tags) : tags[i] # new_tag

\* Lines 364-368: the members of add_tags that the tags lack, appended in the
\* order the iteration over the set add_tags yields them.
AddTags[tags \in Seq(PyStr), add_tags \in Seq(PyStr)] ==
    tags \o SelectSeq(add_tags, LAMBDA new_tag : IsNewTag(tags, new_tag))

\* EmptySource that lets every text through to the edit.
EmptySource_Never(tags_text) == FALSE

\* Line 335: not tags_text or not tags_text.strip()
EmptySource(tags_text) == tags_text = <<>> \/ Strip[tags_text] = <<>>

\* clean_and_edit_tags; add_tags is the set add_tags in its iteration order.
clean_and_edit_tags[tags_text \in PyStr, remove_tags \in TagSets, remove_containing \in TagSets, add_tags \in Seq(PyStr)] ==
    IF EmptySource(tags_text) THEN <<>>
    ELSE Join[Dedup[StripAll[
             AddTags[RemoveTags[StripAll[Split[tags_text, ","]],
                                remove_tags, remove_containing],
                     add_tags]]]]

\* The arguments manual_tag_process is called with: lists of trimmed,
\* non-empty tags (app.py, lines 125-127); the removal lists are taken as
\* the sets lines 581-582 make of them.
EditArgs ==
    { [ remove_tags |-> rm, remove_containing |-> rc, add_tags |-> add ] :
        rm  \in { {}, {<<"b">>}, {<<"a">>, <<"b">>} },
        rc  \in { {}, {<<"a">>} },
        add \in { <<>>, << <<"d">> >>, << <<"a">> >>, << <<"a">>, <<"d">> >> } }

\* Line 583, set(add_tags): the orders in which the iteration over the set
\* may yield the members of the list; Python leaves the order of a set of
\* strings to the hash seed of the process.
SetOrders(tags) ==
    LET members == {tags[i] : i \in 1..Len(tags)}
    IN  {order \in [1..Cardinality(members) -> members] :
            \A i, j \in 1..Cardinality(members) : order[i] = order[j] => i = j}

\* CaptionFiles that keeps only the captions the scanner pairs with an image.
CaptionFiles_PairedOnly(files) ==
    { f \in files : \E i \in 1..Len(scan_and_match_files(files).paired_files) :
                       scan_and_match_files(files).paired_files[i].text_path = f }

\* Lines 593-595: the names of the listing that end in .txt, whatever case.
CaptionFiles(files) == {f \in files : IsText(f)}

\* A caller's thread enters manual_tag_process, lines 578-583.
EditCall(t) ==
    /\ pc[t] = "idle"
    /\ op' = Upd(op, t, "edit")
    /\ \E args \in EditArgs : \E order \in SetOrders(args.add_tags) :
           edit_args' = Upd(edit_args, t,
                            [ remove_tags |-> args.remove_tags,
                              remove_containing |-> args.remove_containing,
                              add_tags |-> args.add_tags,
                              add_tags_set |-> order ])
    /\ result' = Upd(result, t, NewResult)
    /\ pc' = Upd(pc, t, "edit_begin")
    /\ UNCHANGED << dlVars, diskVars, lock, faults, file_infos, unpaired_files, temp_renames,
                    final_renames, k, overall, snap, txt_files >>

\* manual_tag_process, lines 592-595: the caption files of the listing (taken
\* in sorted order); a missing folder makes os.listdir raise, and lines
\* 630-635 turn that into an error of the outcome.
EditBegin(t) ==
    /\ pc[t] = "edit_begin"
    /\ k' = Upd(k, t, 1)
    /\ \/ /\ ~folderExists
          /\ result' = Upd(result, t, AddError(result[t], "edit", <<>>))
          /\ pc' = Upd(pc, t, "done")
          /\ txt_files' = txt_files
       \/ /\ folderExists
          /\ txt_files' = Upd(txt_files, t, Sorted[CaptionFiles(DOMAIN fs)])
          /\ pc' = Upd(pc, t, "edit_loop")
          /\ result' = result
    /\ UNCHANGED << dlVars, diskVars, lock, faults, op, file_infos, unpaired_files,
                    temp_renames, final_renames, overall, snap, edit_args >>

\* EditStep that ends the loop at the first caption it cannot rewrite.
EditStep_StopsAtError(t) ==
    /\ pc[t] = "edit_loop"
    /\ \/ /\ k[t] <= Len(txt_files[t])
          /\ LET txt_file == txt_files[t][k[t]]
                 gone == ~folderExists \/ txt_file \notin DOMAIN fs
             IN  \E outcome \in (IF gone THEN {"open_failed"} ELSE RewriteOutcomes) :
                   /\ data' = CASE outcome = "ok" ->
                                     [data EXCEPT ![fs[txt_file]] =
                                         clean_and_edit_tags[@, edit_args[t].remove_tags,
                                                             edit_args[t].remove_containing,
                                                             edit_args[t].add_tags_set]]
                                [] outcome = "write_failed" ->
                                     [data EXCEPT ![fs[txt_file]] = <<>>]
                                [] OTHER -> data
                   /\ result' = Upd(result, t,
                                    IF outcome = "ok"
                                    THEN [result[t] EXCEPT !.processed_files = @ + 1]
                                    ELSE AddError(result[t], "edit", txt_file))
                   /\ faults' = IF ~gone /\ outcome \in {"open_failed", "write_failed"}
                                THEN faults - 1 ELSE faults
                   /\ k' = Upd(k, t, IF outcome = "ok" THEN k[t] + 1 ELSE 1)
                   /\ pc' = Upd(pc, t, IF outcome = "ok" THEN "edit_loop" ELSE "edit_end")
       \/ /\ k[t] > Len(txt_files[t])
          /\ k' = Upd(k, t, 1)
          /\ pc' = Upd(pc, t, "edit_end")
          /\ UNCHANGED << data, result, faults >>
    /\ UNCHANGED << dlVars, folderExists, fs, unpExists, unp, lock, op, file_infos,
                    unpaired_files, temp_renames, final_renames, overall, snap,
                    editVars >>

\* manual_tag_process, lines 597-620: one iteration of the loop, or its end.
EditStep(t) ==
    /\ pc[t] = "edit_loop"
    /\ \/ /\ k[t] <= Len(txt_files[t])
          /\ LET txt_file == txt_files[t][k[t]]
                 gone == ~folderExists \/ txt_file \notin DOMAIN fs
             IN  \E outcome \in (IF gone THEN {"open_failed"} ELSE RewriteOutcomes) :
                   /\ data' = CASE outcome = "ok" ->
                                     [data EXCEPT ![fs[txt_file]] =
                                         clean_and_edit_tags[@, edit_args[t].remove_tags,
                                                             edit_args[t].remove_containing,
                                                             edit_args[t].add_tags_set]]
                                [] outcome = "write_failed" ->
                                     [data EXCEPT ![fs[txt_file]] = <<>>]
                                [] OTHER -> data
                   /\ result' = Upd(result, t,
                                    IF outcome = "ok"
                                    THEN [result[t] EXCEPT !.processed_files = @ + 1]
                                    ELSE AddError(result[t], "edit", txt_file))
                   /\ faults' = IF ~gone /\ outcome \in {"open_failed", "write_failed"}
                                THEN faults - 1 ELSE faults
          /\ k' = Upd(k, t, k[t] + 1)
          /\ pc' = pc
       \/ /\ k[t] > Len(txt_files[t])
          /\ k' = Upd(k, t, 1)
          /\ pc' = Upd(pc, t, "edit_end")
          /\ UNCHANGED << data, result, faults >>
    /\ UNCHANGED << dlVars, folderExists, fs, unpExists, unp, lock, op, file_infos,
                    unpaired_files, temp_renames, final_renames, overall, snap,
                    editVars >>

\* manual_tag_process, lines 622-635: success flag and return.
EditEnd(t) ==
    /\ pc[t] = "edit_end"
    /\ result' = Upd(result, t, [result[t] EXCEPT !.success = (result[t].errors = <<>>)])
    /\ pc' = Upd(pc, t, "done")
    /\ UNCHANGED << dlVars, diskVars, lock, faults, op, file_infos, unpaired_files,
                    temp_renames, final_renames, k, overall, snap, editVars >>

\* ---------------------------------------------------------- Unpaired Handler

\* self.create_unpaired_folder
\* create_unpaired_folder switched off: unpaired files stay where they are.
create_unpaired_folder_Off == FALSE

\* Line 58: the hard-coded configuration.
create_unpaired_folder == TRUE

\* Lines 474-479: the first free name among filename, root_1+ext, root_2+ext, ...
RECURSIVE FreeName(_, _, _, _)
FreeName(dir, original_dest, dest_path, counter) ==
    IF dest_path \notin DOMAIN dir THEN dest_path
    ELSE FreeName(dir, original_dest,
                  Splitext[original_dest].root \o <<"_">> \o Str[counter]
                      \o Splitext[original_dest].ext,
                  counter + 1)

\* DestPath without the os.path.exists loop: the file's own name, free or not.
DestPath_OwnName(dir, filename) == filename

\* Lines 470-479: the path the file is moved to.
DestPath(dir, filename) == FreeName(dir, filename, filename, 1)

\* handle_unpaired_files, lines 448-465: the early returns and os.makedirs,
\* which creates the dataset folder as well when it is missing.
UnpairedBegin(t) ==
    /\ pc[t] = "unpaired_begin"
    /\ k' = Upd(k, t, 1)
    /\ \/ /\ unpaired_files[t] = <<>> \/ ~create_unpaired_folder
          /\ result' = Upd(result, t, NewResult)
          /\ pc' = Upd(pc, t, "unpaired_end")
          /\ UNCHANGED << folderExists, unpExists, faults >>
       \/ /\ unpaired_files[t] # <<>> /\ create_unpaired_folder
          /\ \E fault \in FaultChoices :
               LET ok == ~fault
               IN  /\ folderExists' = (folderExists \/ ok)
                   /\ unpExists' = (unpExists \/ ok)
                   /\ result' = Upd(result, t,
                                    IF ok THEN NewResult
                                    ELSE AddError(NewResult, "makedirs", <<>>))
                   /\ pc' = Upd(pc, t, IF ok THEN "unpaired_move" ELSE "unpaired_end")
                   /\ faults' = IF fault THEN faults - 1 ELSE faults
    /\ UNCHANGED << dlVars, editVars, fs, unp, data, lock, op, file_infos,
                    unpaired_files, temp_renames, final_renames, overall, snap >>

\* handle_unpaired_files, lines 468-487: one iteration of the move loop, or its end.
UnpairedMove(t) ==
    /\ pc[t] = "unpaired_move"
    /\ \/ /\ k[t] <= Len(unpaired_files[t])
          /\ \E fault \in FaultChoices :
               LET filename  == unpaired_files[t][k[t]]
                   dest_path == DestPath(unp, filename)
                   ok == ~fault /\ folderExists /\ unpExists /\ filename \in DOMAIN fs
               IN  /\ fs' = IF ok THEN [n \in DOMAIN fs \ {filename} |-> fs[n]] ELSE fs
                   /\ unp' = IF ok
                             THEN [n \in DOMAIN unp \cup {dest_path} |->
                                     IF n = dest_path THEN fs[filename] ELSE unp[n]]
                             ELSE unp
                   /\ result' = Upd(result, t,
                                    IF ok
                                    THEN [result[t] EXCEPT !.unpaired_files = @ + 1]
                                    ELSE AddError(result[t], "move", filename))
                   /\ faults' = IF fault THEN faults - 1 ELSE faults
          /\ k' = Upd(k, t, k[t] + 1)
          /\ pc' = pc
       \/ /\ k[t] > Len(unpaired_files[t])
          /\ k' = Upd(k, t, 1)
          /\ pc' = Upd(pc, t, "unpaired_end")
          /\ UNCHANGED << fs, unp, result, faults >>
    /\ UNCHANGED << dlVars, editVars, folderExists, unpExists, data, lock, op, file_infos,
                    unpaired_files, temp_renames, final_renames, overall, snap >>

\* handle_unpaired_files, lines 450-458 and 489-503: success flag and return;
\* auto_post_process, lines 527-528, takes the counter and the errors over.
UnpairedEnd(t) ==
    /\ pc[t] = "unpaired_end"
    /\ result' = Upd(result, t, [result[t] EXCEPT !.success = (result[t].errors = <<>>)])
    /\ \/ /\ op[t] = "unpaired"
          /\ pc' = Upd(pc, t, "done")
          /\ overall' = overall
       \/ /\ op[t] = "auto"
          /\ overall' = Upd(overall, t,
                            [overall[t] EXCEPT !.unpaired_files = result[t].unpaired_files,
                                               !.errors = @ \o result[t].errors])
          /\ pc' = Upd(pc, t, "rename_begin")
    /\ UNCHANGED << dlVars, editVars, diskVars, lock, faults, op, file_infos, unpaired_files,
                    temp_renames, final_renames, k, snap >>

\* -------------------------------------------------------- auto_post_process

Snapshot ==
    [ fs |-> fs, unp |-> unp, data |-> data, exists |-> folderExists,
      faults |-> faults ]

\* The locals of auto_post_process and of the operations it called end with
\* the call.
DropLocals(t) ==
    /\ file_infos' = Upd(file_infos, t, <<>>)
    /\ unpaired_files' = Upd(unpaired_files, t, <<>>)
    /\ temp_renames' = Upd(temp_renames, t, <<>>)
    /\ final_renames' = Upd(final_renames, t, <<>>)
    /\ k' = Upd(k, t, 1)
    /\ result' = Upd(result, t, NewResult)

\* A caller's thread enters auto_post_process, lines 515-517.
AutoCall(t) ==
    /\ pc[t] = "idle"
    /\ op' = Upd(op, t, "auto")
    /\ overall' = Upd(overall, t, NewResult)
    /\ pc' = Upd(pc, t, "acquire")
    /\ UNCHANGED << dlVars, editVars, diskVars, lock, faults, file_infos, unpaired_files, temp_renames,
                    final_renames, k, result, snap >>

\* AutoAcquire that enters without waiting for the lock.
AutoAcquire_NoGuard(t) ==
    /\ pc[t] = "acquire"
    /\ lock' = t
    /\ pc' = Upd(pc, t, "scan1")
    /\ snap' = Upd(snap, t, Snapshot)
    /\ UNCHANGED << dlVars, editVars, diskVars, faults, op, localVars >>

\* `with self._lock:`, line 520: blocks until the lock is free, then takes it.
AutoAcquire(t) ==
    /\ pc[t] = "acquire"
    /\ lock = 0
    /\ lock' = t
    /\ pc' = Upd(pc, t, "scan1")
    /\ snap' = Upd(snap, t, Snapshot)
    /\ UNCHANGED << dlVars, editVars, diskVars, faults, op, localVars >>

\* AutoScan1 with acquire()/release() around the body instead of a with-block:
\* the exception skips the release.
AutoScan1_KeepsLock(t) ==
    /\ pc[t] = "scan1"
    /\ \/ /\ ~folderExists
          /\ overall' = Upd(overall, t, AddError(overall[t], "auto", <<>>))
          /\ pc' = Upd(pc, t, "returned")
          /\ UNCHANGED << file_infos, unpaired_files >>
       \/ /\ folderExists
          /\ file_infos' = Upd(file_infos, t, scan_and_match_files(DOMAIN fs).paired_files)
          /\ unpaired_files' = Upd(unpaired_files, t,
                                   scan_and_match_files(DOMAIN fs).unpaired_files)
          /\ overall' = Upd(overall, t,
                            [overall[t] EXCEPT !.processed_files =
                                Len(scan_and_match_files(DOMAIN fs).paired_files)])
          /\ pc' = Upd(pc, t, "unpaired_begin")
    /\ UNCHANGED << dlVars, editVars, diskVars, lock, faults, op, temp_renames, final_renames, k,
                    result, snap >>

\* AutoScan1 whose scanner takes a missing folder for an empty one.
AutoScan1_EmptyScan(t) ==
    /\ pc[t] = "scan1"
    /\ file_infos' = Upd(file_infos, t, scan_and_match_files(DOMAIN fs).paired_files)
    /\ unpaired_files' = Upd(unpaired_files, t,
                             scan_and_match_files(DOMAIN fs).unpaired_files)
    /\ overall' = Upd(overall, t,
                      [overall[t] EXCEPT !.processed_files =
                          Len(scan_and_match_files(DOMAIN fs).paired_files)])
    /\ pc' = Upd(pc, t, "unpaired_begin")
    /\ UNCHANGED << dlVars, editVars, diskVars, lock, faults, op, temp_renames,
                    final_renames, k, result, snap >>

\* Lines 522-523: the initial scan.  When the folder is missing the scanner
\* raises; the with-block releases the lock on the way out and lines 556-562
\* turn the exception into an error of the outcome.
AutoScan1(t) ==
    /\ pc[t] = "scan1"
    /\ \/ /\ ~folderExists
          /\ lock' = 0
          /\ overall' = Upd(overall, t, AddError(overall[t], "auto", <<>>))
          /\ pc' = Upd(pc, t, "returned")
          /\ UNCHANGED << file_infos, unpaired_files >>
       \/ /\ folderExists
          /\ file_infos' = Upd(file_infos, t, scan_and_match_files(DOMAIN fs).paired_files)
          /\ unpaired_files' = Upd(unpaired_files, t,
                                   scan_and_match_files(DOMAIN fs).unpaired_files)
          /\ overall' = Upd(overall, t,
                            [overall[t] EXCEPT !.processed_files =
                                Len(scan_and_match_files(DOMAIN fs).paired_files)])
          /\ pc' = Upd(pc, t, "unpaired_begin")
          /\ lock' = lock
    /\ UNCHANGED << dlVars, editVars, diskVars, faults, op, temp_renames, final_renames, k,
                    result, snap >>

\* Line 537: the re-scan after the rename.
AutoScan2(t) ==
    /\ pc[t] = "scan2"
    /\ \/ /\ ~folderExists
          /\ lock' = 0
          /\ overall' = Upd(overall, t, AddError(overall[t], "auto", <<>>))
          /\ pc' = Upd(pc, t, "returned")
          /\ UNCHANGED << file_infos >>
       \/ /\ folderExists
          /\ file_infos' = Upd(file_infos, t, scan_and_match_files(DOMAIN fs).paired_files)
          /\ pc' = Upd(pc, t, "standardize_begin")
          /\ UNCHANGED << lock, overall >>
    /\ UNCHANGED << dlVars, editVars, diskVars, faults, op, unpaired_files, temp_renames,
                    final_renames, k, result, snap >>

\* AutoSummary that reports success whatever the errors list holds.
AutoSummary_IgnoresErrors(t) ==
    /\ pc[t] = "summary"
    /\ overall' = Upd(overall, t, [overall[t] EXCEPT !.success = TRUE])
    /\ lock' = 0
    /\ pc' = Upd(pc, t, "returned")
    /\ DropLocals(t)
    /\ UNCHANGED << dlVars, editVars, diskVars, faults, op, snap >>

\* Lines 543-554 and 562: the summary, the end of the with-block, the return.
AutoSummary(t) ==
    /\ pc[t] = "summary"
    /\ overall' = Upd(overall, t, [overall[t] EXCEPT !.success = (overall[t].errors = <<>>)])
    /\ lock' = 0
    /\ pc' = Upd(pc, t, "returned")
    /\ DropLocals(t)
    /\ UNCHANGED << dlVars, editVars, diskVars, faults, op, snap >>

\* ------------------------------------------------------------ initial states

EmptyDir == [n \in {} |-> 0]

\* Text each file holds initially (images hold no text of interest).
InitialText(i) ==
    LET n == NameUniverse[((i - 1) % Len(NameUniverse)) + 1]
    IN  CASE n = N_a_txt      -> <<"a", "_", "b">>
          [] n = N_a_jpg_txt  -> <<"(", "x", ")">>
          [] n = N_b_TXT      -> <<"x", ",", " ", "x">>
          [] n = N_temp_1_txt -> <<"a", "-", "b", "\n", "x">>
          [] OTHER            -> <<>>

InitData == [i \in 1..(2 * Len(NameUniverse)) |-> InitialText(i)]

\* Records a caller may build by hand over the files of a folder.
HandRecords(files) ==
    { [ image_path |-> img, text_path |-> txt,
        base_name |-> Splitext[img].root, is_paired |-> (txt # None) ] :
      img \in {f \in files : IsImage(f)},
      txt \in {f \in files : IsText(f)} \cup {None} }

SeqsUpTo(S, n) == UNION { [1..m -> S] : m \in 0..n }

\* The records lists rename_files is called with: what the scanner returned
\* for the folder, or a hand-built list.
RecordLists(files) ==
    { scan_and_match_files(files).paired_files } \cup SeqsUpTo(HandRecords(files), MaxRecs)

\* ------------------------------------------------------ danbooru_downloader

MaxCalls == 2     \* downloader calls made in one run, over all threads
MaxWorkers == 2   \* download threads started in one run
MaxLines == 1     \* output lines read from one gallery-dl process

\* The download threads start_download creates; thread w starts process w.
Workers == 1..MaxWorkers

\* download_process = None
NoProcess == 0

\* A download thread that was not created yet.
NewWorker ==
    [ pc |-> "none", pipe |-> NoProcess, waiting |-> NoProcess,
      return_code |-> 0, downloaded_files |-> 0, lines |-> 0,
      exception |-> "none" ]

\* danbooru_downloader.__init__, and no call made to it.
DownloaderReady ==
    /\ is_downloading = FALSE
    /\ status = "ready"
    /\ file_count = 0
    /\ download_process = NoProcess
    /\ procs = [h \in Workers |-> [ state |-> "none", closed |-> FALSE ]]
    /\ workers = [w \in Workers |-> NewWorker]
    /\ calls = <<>>

\* Everything of the post-processor but the threads' positions.
ppVars == << diskVars, lock, faults, localVars, snap, editVars >>

\* A download thread between its creation and its end.
Active(w) == workers[w].pc \notin {"none", "done"}

\* The threads inside start_download.
Starting == { c \in Threads : pc[c] \in {"start_check", "start_reset", "start_thread"} }

\* A request handler of app.py calls the downloader.
DlCall(c) ==
    /\ pc[c] = "idle"
    /\ script[c] # <<>>
    /\ Head(script[c]) = "start_download" =>
           Cardinality({w \in Workers : workers[w].pc = "none"}) > Cardinality(Starting)
    /\ op' = [op EXCEPT ![c] = Head(script[c])]
    /\ pc' = [pc EXCEPT ![c] =
                 IF Head(script[c]) = "start_download" THEN "start_check" ELSE "cancel_check"]
    /\ script' = [script EXCEPT ![c] = Tail(@)]
    /\ UNCHANGED << ppVars, is_downloading, status, file_count, download_process,
                    procs, workers, calls >>

\* return success, message
DlReturn(c, success, message) ==
    /\ pc' = [pc EXCEPT ![c] = "idle"]
    /\ calls' = Append(calls, [ thread |-> c, call |-> op[c], success |-> success,
                                message |-> message ])

\* start_download: the tests it makes before it changes anything.
StartCheck(c) ==
    /\ pc[c] = "start_check"
    /\ \/ /\ is_downloading
          /\ DlReturn(c, FALSE, "busy")
       \/ /\ ~is_downloading
          /\ \E valid \in BOOLEAN :
                IF valid
                THEN pc' = [pc EXCEPT ![c] = "start_reset"] /\ UNCHANGED calls
                ELSE DlReturn(c, FALSE, "invalid")
    /\ UNCHANGED << ppVars, op, is_downloading, status, file_count, download_process,
                    procs, workers, script >>

\* start_download: the state is reset.
StartReset(c) ==
    /\ pc[c] = "start_reset"
    /\ file_count' = 0
    /\ status' = "preparing"
    /\ pc' = [pc EXCEPT ![c] = "start_thread"]
    /\ UNCHANGED << ppVars, op, is_downloading, download_process, procs, workers,
                    script, calls >>

\* start_download: the download thread is created and started.
StartThread(c) ==
    /\ pc[c] = "start_thread"
    /\ \E w \in Workers :
          /\ workers[w].pc = "none"
          /\ \A v \in Workers : workers[v].pc = "none" => w <= v
          /\ workers' = [workers EXCEPT ![w].pc = "begin"]
    /\ DlReturn(c, TRUE, "started")
    /\ UNCHANGED << ppVars, op, is_downloading, status, file_count, download_process,
                    procs, script >>

\* An exception inside cancel_download's try block.
CancelRaise(c) == pc' = [pc EXCEPT ![c] = "cancel_except"]

\* cancel_download: if not self.is_downloading
CancelCheck(c) ==
    /\ pc[c] = "cancel_check"
    /\ IF is_downloading
       THEN pc' = [pc EXCEPT ![c] = "cancel_process"] /\ UNCHANGED calls
       ELSE DlReturn(c, FALSE, "nothing")
    /\ UNCHANGED << ppVars, op, is_downloading, status, file_count, download_process,
                    procs, workers, script >>

\* cancel_download: if self.download_process ...
CancelProcess(c) ==
    /\ pc[c] = "cancel_process"
    /\ pc' = [pc EXCEPT ![c] =
                 IF download_process = NoProcess THEN "cancel_stop_flag" ELSE "cancel_poll"]
    /\ UNCHANGED << ppVars, op, is_downloading, status, file_count, download_process,
                    procs, workers, script, calls >>

\* cancel_download: ... and self.download_process.poll() is None
CancelPoll(c) ==
    /\ pc[c] = "cancel_poll"
    /\ IF download_process = NoProcess
       THEN CancelRaise(c)
       ELSE pc' = [pc EXCEPT ![c] =
                      IF procs[download_process].state = "running"
                      THEN "cancel_terminate" ELSE "cancel_stop_flag"]
    /\ UNCHANGED << ppVars, op, is_downloading, status, file_count, download_process,
                    procs, workers, script, calls >>

\* What terminate() and kill() do to a process.
Killed(h) == [procs EXCEPT ![h].state = IF @ = "running" THEN "exit1" ELSE @]

\* cancel_download: self.download_process.terminate()
CancelTerminate(c) ==
    /\ pc[c] = "cancel_terminate"
    /\ IF download_process = NoProcess
       THEN CancelRaise(c) /\ UNCHANGED procs
       ELSE /\ procs' = Killed(download_process)
            /\ pc' = [pc EXCEPT ![c] = "cancel_wait"]
    /\ UNCHANGED << ppVars, op, is_downloading, status, file_count, download_process,
                    workers, script, calls >>

\* cancel_download: self.download_process.wait(timeout=5), and kill() and
\* wait() for a process that did not end in time.
CancelWait(c) ==
    /\ pc[c] = "cancel_wait"
    /\ IF download_process = NoProcess
       THEN CancelRaise(c) /\ UNCHANGED procs
       ELSE /\ procs' = Killed(download_process)
            /\ pc' = [pc EXCEPT ![c] = "cancel_status"]
    /\ UNCHANGED << ppVars, op, is_downloading, status, file_count, download_process,
                    workers, script, calls >>

\* cancel_download: self.status = "下载已取消"
CancelStatus(c) ==
    /\ pc[c] = "cancel_status"
    /\ status' = "cancelled"
    /\ pc' = [pc EXCEPT ![c] = "cancel_flag"]
    /\ UNCHANGED << ppVars, op, is_downloading, file_count, download_process, procs,
                    workers, script, calls >>

\* cancel_download: self.is_downloading = False
CancelFlag(c) ==
    /\ pc[c] = "cancel_flag"
    /\ is_downloading' = FALSE
    /\ pc' = [pc EXCEPT ![c] = "cancel_clear"]
    /\ UNCHANGED << ppVars, op, status, file_count, download_process, procs,
                    workers, script, calls >>

\* cancel_download: self.download_process = None; return True, "下载已取消"
CancelClear(c) ==
    /\ pc[c] = "cancel_clear"
    /\ download_process' = NoProcess
    /\ DlReturn(c, TRUE, "cancelled")
    /\ UNCHANGED << ppVars, op, is_downloading, status, file_count, procs,
                    workers, script >>

\* cancel_download, no running process: self.is_downloading = False
CancelStopFlag(c) ==
    /\ pc[c] = "cancel_stop_flag"
    /\ is_downloading' = FALSE
    /\ pc' = [pc EXCEPT ![c] = "cancel_stop_status"]
    /\ UNCHANGED << ppVars, op, status, file_count, download_process, procs,
                    workers, script, calls >>

\* cancel_download, no running process: self.status = "下载已停止"; return
CancelStopStatus(c) ==
    /\ pc[c] = "cancel_stop_status"
    /\ status' = "stopped"
    /\ DlReturn(c, TRUE, "stopped")
    /\ UNCHANGED << ppVars, op, is_downloading, file_count, download_process, procs,
                    workers, script >>

\* cancel_download, except: self.is_downloading = False
CancelExceptFlag(c) ==
    /\ pc[c] = "cancel_except"
    /\ is_downloading' = FALSE
    /\ pc' = [pc EXCEPT ![c] = "cancel_except_status"]
    /\ UNCHANGED << ppVars, op, status, file_count, download_process, procs,
                    workers, script, calls >>

\* cancel_download, except: self.status = "取消下载时出错"; return False
CancelExceptStatus(c) ==
    /\ pc[c] = "cancel_except_status"
    /\ status' = "cancel_error"
    /\ DlReturn(c, FALSE, "cancel_error")
    /\ UNCHANGED << ppVars, op, is_downloading, file_count, download_process, procs,
                    workers, script >>

\* The download thread moves on.
Goto(w, label) == workers' = [workers EXCEPT ![w].pc = label]

\* An exception inside _run_download_process' try block.
Raise(w, e) == workers' = [workers EXCEPT ![w].pc = "except", ![w].exception = e]

\* _run_download_process: self.is_downloading = True
RunFlag(w) ==
    /\ workers[w].pc = "begin"
    /\ is_downloading' = TRUE
    /\ Goto(w, "status")
    /\ UNCHANGED << ppVars, pc, op, status, file_count, download_process, procs,
                    script, calls >>

\* _run_download_process: self.status = "正在下载..."
RunStatus(w) ==
    /\ workers[w].pc = "status"
    /\ status' = "downloading"
    /\ Goto(w, "popen")
    /\ UNCHANGED << ppVars, pc, op, is_downloading, file_count, download_process,
                    procs, script, calls >>

\* _run_download_process: the folder and the command are made, and the
\* process is started; each of them can fail.
RunPopen(w) ==
    /\ workers[w].pc = "popen"
    /\ \E e \in {"none", "FileNotFoundError", "OSError"} :
          IF e = "none"
          THEN /\ procs' = [procs EXCEPT ![w].state = "running"]
               /\ download_process' = w
               /\ Goto(w, "iter")
          ELSE Raise(w, e) /\ UNCHANGED << procs, download_process >>
    /\ UNCHANGED << ppVars, pc, op, is_downloading, status, file_count, script, calls >>

\* _run_download_process: iter(self.download_process.stdout.readline, '')
RunIter(w) ==
    /\ workers[w].pc = "iter"
    /\ IF download_process = NoProcess
       THEN Raise(w, "AttributeError")
       ELSE workers' = [workers EXCEPT ![w].pc = "readline", ![w].pipe = download_process]
    /\ UNCHANGED << ppVars, pc, op, is_downloading, status, file_count, download_process,
                    procs, script, calls >>

\* _run_download_process: the loop reads a line, or the end of the output.
RunReadline(w) ==
    /\ workers[w].pc = "readline"
    /\ LET p == workers[w].pipe IN
         \/ procs[p].closed /\ Raise(w, "ValueError")
         \/ /\ ~procs[p].closed
            /\ procs[p].state = "running"
            /\ workers[w].lines < MaxLines
            /\ workers' = [workers EXCEPT ![w].pc = "cancelled?", ![w].lines = @ + 1]
         \/ /\ ~procs[p].closed
            /\ procs[p].state \in {"exit0", "exit1"}
            /\ Goto(w, "close")
    /\ UNCHANGED << ppVars, pc, op, is_downloading, status, file_count, download_process,
                    procs, script, calls >>

\* _run_download_process: if not self.is_downloading: break
RunCancelled(w) ==
    /\ workers[w].pc = "cancelled?"
    /\ Goto(w, IF is_downloading THEN "count" ELSE "close")
    /\ UNCHANGED << ppVars, pc, op, is_downloading, status, file_count, download_process,
                    procs, script, calls >>

\* _run_download_process: a line that reports a saved file is counted.
RunCount(w) ==
    /\ workers[w].pc = "count"
    /\ \E saved \in BOOLEAN :
          IF saved
          THEN /\ workers' = [workers EXCEPT ![w].pc = "readline",
                                             ![w].downloaded_files = @ + 1]
               /\ file_count' = workers[w].downloaded_files + 1
               /\ status' = "progress"
          ELSE Goto(w, "readline") /\ UNCHANGED << file_count, status >>
    /\ UNCHANGED << ppVars, pc, op, is_downloading, download_process, procs, script, calls >>

\* _run_download_process: self.download_process.stdout.close()
RunClose(w) ==
    /\ workers[w].pc = "close"
    /\ IF download_process = NoProcess
       THEN Raise(w, "AttributeError") /\ UNCHANGED procs
       ELSE /\ procs' = [procs EXCEPT ![download_process].closed = TRUE]
            /\ Goto(w, "wait")
    /\ UNCHANGED << ppVars, pc, op, is_downloading, status, file_count, download_process,
                    script, calls >>

\* _run_download_process: self.download_process.wait() is called
RunWait(w) ==
    /\ workers[w].pc = "wait"
    /\ IF download_process = NoProcess
       THEN Raise(w, "AttributeError")
       ELSE workers' = [workers EXCEPT ![w].pc = "waiting", ![w].waiting = download_process]
    /\ UNCHANGED << ppVars, pc, op, is_downloading, status, file_count, download_process,
                    procs, script, calls >>

\* _run_download_process: wait() returns the exit code of the process
RunWaited(w) ==
    /\ workers[w].pc = "waiting"
    /\ procs[workers[w].waiting].state \in {"exit0", "exit1"}
    /\ workers' = [workers EXCEPT ![w].pc = "if",
                       ![w].return_code = IF procs[workers[w].waiting].state = "exit0"
                                          THEN 0 ELSE 1]
    /\ UNCHANGED << ppVars, pc, op, is_downloading, status, file_count, download_process,
                    procs, script, calls >>

\* _run_download_process: if return_code == 0 and self.is_downloading
RunIf(w) ==
    /\ workers[w].pc = "if"
    /\ Goto(w, IF workers[w].return_code = 0 /\ is_downloading THEN "complete" ELSE "elif")
    /\ UNCHANGED << ppVars, pc, op, is_downloading, status, file_count, download_process,
                    procs, script, calls >>

\* _run_download_process: elif not self.is_downloading
RunElif(w) ==
    /\ workers[w].pc = "elif"
    /\ Goto(w, IF ~is_downloading THEN "cancelled" ELSE "error")
    /\ UNCHANGED << ppVars, pc, op, is_downloading, status, file_count, download_process,
                    procs, script, calls >>

\* _run_download_process: the final status of the branch taken
RunFinalStatus(w) ==
    /\ workers[w].pc \in {"complete", "cancelled", "error"}
    /\ status' = workers[w].pc
    /\ IF workers[w].pc = "complete"
       THEN file_count' \in 0..MaxLines
       ELSE UNCHANGED file_count
    /\ Goto(w, "finally")
    /\ UNCHANGED << ppVars, pc, op, is_downloading, download_process, procs, script, calls >>

\* _run_download_process: the two except clauses
RunExcept(w) ==
    /\ workers[w].pc = "except"
    /\ status' = IF workers[w].exception = "FileNotFoundError" THEN "not_found" ELSE "exception"
    /\ Goto(w, "finally")
    /\ UNCHANGED << ppVars, pc, op, is_downloading, file_count, download_process, procs,
                    script, calls >>

\* _run_download_process, finally: self.is_downloading = False
RunFinallyFlag(w) ==
    /\ workers[w].pc = "finally"
    /\ is_downloading' = FALSE
    /\ Goto(w, "finally_process")
    /\ UNCHANGED << ppVars, pc, op, status, file_count, download_process, procs,
                    script, calls >>

\* _run_download_process, finally: self.download_process = None
RunFinallyProcess(w) ==
    /\ workers[w].pc = "finally_process"
    /\ download_process' = NoProcess
    /\ Goto(w, "done")
    /\ UNCHANGED << ppVars, pc, op, is_downloading, status, file_count, procs,
                    script, calls >>

\* The gallery-dl process ends by itself, with or without an error.
ProcExit(h) ==
    /\ procs[h].state = "running"
    /\ \E s \in {"exit0", "exit1"} : procs' = [procs EXCEPT ![h].state = s]
    /\ UNCHANGED << ppVars, pc, op, is_downloading, status, file_count, download_process,
                    workers, script, calls >>

\* No call of the post-processor has begun.
ProcessorReady ==
    /\ lock = 0
    /\ unpaired_files = [t \in Threads |-> <<>>]
    /\ temp_renames = [t \in Threads |-> <<>>]
    /\ final_renames = [t \in Threads |-> <<>>]
    /\ k = [t \in Threads |-> 1]
    /\ result = [t \in Threads |-> NewResult]
    /\ overall = [t \in Threads |-> NewResult]
    /\ txt_files = [t \in Threads |-> <<>>]
    /\ edit_args = [t \in Threads |-> NoEditArgs]

\* Both objects of app.py as constructed, and no downloader call to make.
InitLocals ==
    /\ ProcessorReady
    /\ DownloaderReady
    /\ script = [t \in Threads |-> <<>>]

\* The request handlers call the downloader, with any sequences of
\* start_download and cancel_download, MaxCalls calls in all; the
\* post-processor is not used.
InitDownload ==
    /\ folderExists = FALSE
    /\ fs = EmptyDir
    /\ unpExists = FALSE
    /\ unp = EmptyDir
    /\ data = InitData
    /\ faults = 0
    /\ pc = [t \in Threads |-> "idle"]
    /\ op = [t \in Threads |-> "none"]
    /\ file_infos = [t \in Threads |-> <<>>]
    /\ ProcessorReady
    /\ DownloaderReady
    /\ script \in [Threads -> SeqsUpTo({"start_download", "cancel_download"}, MaxCalls)]
    /\ Len(script[1]) + Len(script[2]) <= MaxCalls
    /\ snap = [t \in Threads |-> Snapshot]

NextDownload ==
    \/ \E c \in Threads : DlCall(c)
    \/ \E c \in Threads : StartCheck(c)
    \/ \E c \in Threads : StartReset(c)
    \/ \E c \in Threads : StartThread(c)
    \/ \E c \in Threads : CancelCheck(c)
    \/ \E c \in Threads : CancelProcess(c)
    \/ \E c \in Threads : CancelPoll(c)
    \/ \E c \in Threads : CancelTerminate(c)
    \/ \E c \in Threads : CancelWait(c)
    \/ \E c \in Threads : CancelStatus(c)
    \/ \E c \in Threads : CancelFlag(c)
    \/ \E c \in Threads : CancelClear(c)
    \/ \E c \in Threads : CancelStopFlag(c)
    \/ \E c \in Threads : CancelStopStatus(c)
    \/ \E c \in Threads : CancelExceptFlag(c)
    \/ \E c \in Threads : CancelExceptStatus(c)
    \/ \E w \in Workers : RunFlag(w)
    \/ \E w \in Workers : RunStatus(w)
    \/ \E w \in Workers : RunPopen(w)
    \/ \E w \in Workers : RunIter(w)
    \/ \E w \in Workers : RunReadline(w)
    \/ \E w \in Workers : RunCancelled(w)
    \/ \E w \in Workers : RunCount(w)
    \/ \E w \in Workers : RunClose(w)
    \/ \E w \in Workers : RunWait(w)
    \/ \E w \in Workers : RunWaited(w)
    \/ \E w \in Workers : RunIf(w)
    \/ \E w \in Workers : RunElif(w)
    \/ \E w \in Workers : RunFinalStatus(w)
    \/ \E w \in Workers : RunExcept(w)
    \/ \E w \in Workers : RunFinallyFlag(w)
    \/ \E w \in Workers : RunFinallyProcess(w)
    \/ \E h \in Workers : ProcExit(h)

SpecDownload == InitDownload /\ [][NextDownload]_vars

\* A standalone scan_and_match_files call on any folder, present or missing.
InitScan ==
    /\ folderExists \in BOOLEAN
    /\ fs \in IF folderExists THEN {MkDir(S) : S \in Folders} ELSE {EmptyDir}
    /\ unpExists = FALSE
    /\ unp = EmptyDir
    /\ data = InitData
    /\ faults = 0
    /\ pc = [t \in Threads |-> IF t = 1 THEN "scan" ELSE "idle"]
    /\ op = [t \in Threads |-> IF t = 1 THEN "scan" ELSE "none"]
    /\ file_infos = [t \in Threads |-> <<>>]
    /\ InitLocals
    /\ snap = [t \in Threads |-> Snapshot]

NextScan == \E t \in Threads : ScanFolder(t)

SpecScan == InitScan /\ [][NextScan]_vars

\* A standalone rename_files call on any folder with any records list.
InitRename ==
    /\ folderExists = TRUE
    /\ fs \in {MkDir(S) : S \in Folders}
    /\ unpExists = FALSE
    /\ unp = EmptyDir
    /\ data = InitData
    /\ faults = MaxFaults
    /\ pc = [t \in Threads |-> IF t = 1 THEN "rename_begin" ELSE "idle"]
    /\ op = [t \in Threads |-> IF t = 1 THEN "rename" ELSE "none"]
    /\ file_infos \in { [t \in Threads |-> IF t = 1 THEN r ELSE <<>>] :
                          r \in RecordLists(DOMAIN fs) }
    /\ InitLocals
    /\ snap = [t \in Threads |-> Snapshot]

NextRename ==
    \E t \in Threads : RenameBegin(t) \/ RenameTemp(t) \/ RenameFinal(t) \/ RenameEnd(t)

SpecRename == InitRename /\ [][NextRename]_vars


\* ------------------------------------------------- the operations on their own

\* The texts of at most n characters over an alphabet.
Texts(alphabet, n) == UNION { [1..l -> alphabet] : l \in 0..n }

\* A folder that holds one image and its caption, the caption's text x.
OnePair(x) ==
    /\ folderExists = TRUE
    /\ fs = MkDir({N_a_jpg, N_a_txt})
    /\ unpExists = FALSE
    /\ unp = EmptyDir
    /\ data = [InitData EXCEPT ![InodeOf(N_a_txt)] = x]
    /\ faults = 0
    /\ pc = [t \in Threads |-> "idle"]
    /\ op = [t \in Threads |-> "none"]
    /\ file_infos = [t \in Threads |-> <<>>]
    /\ InitLocals
    /\ snap = [t \in Threads |-> Snapshot]

\* standardize_tags called with the records of a scan (app.py, lines 161-170).
StandardizeCall(t) ==
    /\ pc[t] = "idle"
    /\ folderExists
    /\ op' = Upd(op, t, "standardize")
    /\ file_infos' = Upd(file_infos, t, scan_and_match_files(DOMAIN fs).paired_files)
    /\ pc' = Upd(pc, t, "standardize_begin")
    /\ UNCHANGED << dlVars, diskVars, lock, faults, unpaired_files, temp_renames,
                    final_renames, k, result, overall, snap, editVars >>

\* Characters of the caption texts given to auto_standardize_tags.
StdAlphabet == {"a", " ", "\n", ",", "_", "-", "(", ")", "\\"}

InitStandardize == \E x \in Texts(StdAlphabet, MaxTextLen) : OnePair(x)

NextStandardize ==
    \E t \in {1} :
        \/ StandardizeCall(t)
        \/ StandardizeBegin(t)
        \/ StandardizeStep(t)
        \/ StandardizeEnd(t)

\* One standardize_tags call on a caption of any text.
SpecStandardize == InitStandardize /\ [][NextStandardize]_vars

\* Characters of the caption texts given to clean_and_edit_tags.
EditAlphabet == {"a", "b", ",", " "}

InitEdit == \E x \in Texts(EditAlphabet, MaxEditLen) : OnePair(x)

NextEdit == \E t \in {1} : EditCall(t) \/ EditBegin(t) \/ EditStep(t) \/ EditEnd(t)

\* One manual_tag_process call on a caption of any comma-delimited text.
SpecEdit == InitEdit /\ [][NextEdit]_vars

\* scan_and_match_files called on its own.
ScanCall(t) ==
    /\ pc[t] = "idle"
    /\ op' = Upd(op, t, "scan")
    /\ pc' = Upd(pc, t, "scan")
    /\ UNCHANGED << dlVars, diskVars, lock, faults, localVars, snap, editVars >>

\* rename_files called with the records of a scan.
RenameCall(t) ==
    /\ pc[t] = "idle"
    /\ folderExists
    /\ op' = Upd(op, t, "rename")
    /\ file_infos' = Upd(file_infos, t, scan_and_match_files(DOMAIN fs).paired_files)
    /\ pc' = Upd(pc, t, "rename_begin")
    /\ UNCHANGED << dlVars, diskVars, lock, faults, unpaired_files, temp_renames,
                    final_renames, k, result, overall, snap, editVars >>

\* handle_unpaired_files called with the unpaired captions of a scan, or,
\* the folder gone since, with a list an earlier scan left.
UnpairedCall(t) ==
    /\ pc[t] = "idle"
    /\ op' = Upd(op, t, "unpaired")
    /\ unpaired_files' = Upd(unpaired_files, t,
                             IF folderExists
                             THEN scan_and_match_files(DOMAIN fs).unpaired_files
                             ELSE <<N_b_TXT>>)
    /\ pc' = Upd(pc, t, "unpaired_begin")
    /\ UNCHANGED << dlVars, diskVars, lock, faults, file_infos, temp_renames,
                    final_renames, k, result, overall, snap, editVars >>

\* The unpaired subfolder before a call: absent, or left by earlier runs with
\* a caption, or with a caption and its first renamed namesake.
N_b_1_TXT == <<"b", "_", "1", ".", "T", "X", "T">>

InitUnpairedOps ==
    \/ unpExists = FALSE /\ unp = EmptyDir
    \/ unpExists = TRUE /\ unp = [n \in {N_b_TXT} |-> UnpInode(n)]
    \/ /\ unpExists = TRUE
       /\ unp = [n \in {N_b_TXT, N_b_1_TXT} |->
                   IF n = N_b_TXT THEN UnpInode(N_b_TXT) ELSE UnpInode(N_1_txt)]

\* One thread about to call one operation of the processor on a folder.
InitOps ==
    /\ folderExists \in BOOLEAN
    /\ fs \in IF folderExists THEN {MkDir(S) : S \in AutoFolders} ELSE {EmptyDir}
    /\ IF folderExists THEN InitUnpairedOps ELSE (unpExists = FALSE /\ unp = EmptyDir)
    /\ data = InitData
    /\ faults = MaxFaults
    /\ pc = [t \in Threads |-> "idle"]
    /\ op = [t \in Threads |-> "none"]
    /\ file_infos = [t \in Threads |-> <<>>]
    /\ InitLocals
    /\ snap = [t \in Threads |-> Snapshot]

OpsStep(t) ==
    \/ ScanCall(t)
    \/ ScanFolder(t)
    \/ RenameCall(t)
    \/ StandardizeCall(t)
    \/ UnpairedCall(t)
    \/ EditCall(t)
    \/ EditBegin(t)
    \/ EditStep(t)
    \/ EditEnd(t)
    \/ AutoCall(t)
    \/ AutoAcquire(t)
    \/ AutoScan1(t)
    \/ UnpairedBegin(t)
    \/ UnpairedMove(t)
    \/ UnpairedEnd(t)
    \/ RenameBegin(t)
    \/ RenameTemp(t)
    \/ RenameFinal(t)
    \/ RenameEnd(t)
    \/ AutoScan2(t)
    \/ StandardizeBegin(t)
    \/ StandardizeStep(t)
    \/ StandardizeEnd(t)
    \/ AutoSummary(t)

NextOps == \E t \in {1} : OpsStep(t)

\* One call of any operation of the processor.
SpecOps == InitOps /\ [][NextOps]_vars

\* ------------------------------------------------------------ renamer claims

Range(f) == {f[x] : x \in DOMAIN f}

\* The thread that runs the standalone operation.
Caller == CHOOSE t \in Threads : \A u \in Threads : t <= u

\* No I/O failure was injected since the call began.
NoFault(t) == faults = snap[t].faults

\* The folder holds exactly n image/caption pairs: every image is paired, no
\* caption is left over and no caption serves two images.
ExactPairs(files) ==
    LET sc == scan_and_match_files(files)
    IN  /\ \A i \in 1..Len(sc.paired_files) : sc.paired_files[i].is_paired
        /\ sc.unpaired_files = <<>>
        /\ \A i, j \in 1..Len(sc.paired_files) :
             i # j => sc.paired_files[i].text_path # sc.paired_files[j].text_path

\* C1 (as claimed): rename_files never loses a file: every file of the folder
\* at the call is still in the folder, under some name, in every state of the
\* call (no rename of Phase 1 or Phase 2 replaces an existing file).
C1_NoFileLost ==
    op[Caller] = "rename" => Range(snap[Caller].fs) \subseteq Range(fs)

\* C2 (as claimed): on a folder of exactly n pairs, rename_files with the
\* scanner's records leaves exactly 1.<ext>, 1.txt, ..., n.<ext>, n.txt, file
\* i being the image and caption of record i, contents unchanged.
C2_DenseNumbering ==
    ( /\ op[Caller] = "rename" /\ pc[Caller] = "done" /\ NoFault(Caller)
      /\ ExactPairs(DOMAIN snap[Caller].fs)
      /\ file_infos[Caller] = scan_and_match_files(DOMAIN snap[Caller].fs).paired_files )
    =>
    LET recs == file_infos[Caller]
        imgName(i) == Str[i] \o Splitext[recs[i].image_path].ext
        txtName(i) == Str[i] \o DotTxt
    IN  /\ DOMAIN fs = {imgName(i) : i \in 1..Len(recs)} \cup {txtName(i) : i \in 1..Len(recs)}
        /\ \A i \in 1..Len(recs) :
             /\ fs[imgName(i)] = snap[Caller].fs[recs[i].image_path]
             /\ fs[txtName(i)] = snap[Caller].fs[recs[i].text_path]
        /\ data = snap[Caller].data

\* A rename_files call has returned without any failed rename.
RenamedCleanly ==
    op[Caller] = "rename" /\ pc[Caller] = "done" /\ result[Caller].errors = <<>>

Scanned == op[Caller] = "scan" /\ pc[Caller] = "done"

ImagesOf(files) == {f \in files : IsImage(f)}
TextsOf(files)  == {f \in files : IsText(f)}

\* C4 (as claimed): no two records returned by the scanner have the same
\* caption file as their text_path.
C4_CaptionUsedOnce ==
    Scanned =>
    \A i, j \in 1..Len(file_infos[Caller]) :
        (i # j /\ file_infos[Caller][i].is_paired /\ file_infos[Caller][j].is_paired)
        => file_infos[Caller][i].text_path # file_infos[Caller][j].text_path

\* C5: the scanner returns exactly one record per image file, in sorted image
\* filename order, each either paired (is_paired, text_path an existing
\* caption in sibling-stem or full-name form) or unpaired (text_path absent).
C5_OneRecordPerImage ==
    Scanned =>
    LET recs == file_infos[Caller] IN
    /\ {recs[i].image_path : i \in 1..Len(recs)} = ImagesOf(DOMAIN fs)
    /\ \A i \in 1..(Len(recs) - 1) : StrLess(recs[i].image_path, recs[i + 1].image_path)
    /\ \A i \in 1..Len(recs) :
         \/ /\ recs[i].is_paired
            /\ recs[i].text_path \in TextsOf(DOMAIN fs)
            /\ recs[i].text_path \in { Splitext[recs[i].image_path].root \o DotTxt,
                                       recs[i].image_path \o DotTxt }
         \/ /\ ~recs[i].is_paired
            /\ recs[i].text_path = None

\* A scan that returned a paired and an unpaired record.
C5_Witness ==
    /\ Scanned
    /\ \E i, j \in 1..Len(file_infos[Caller]) :
         file_infos[Caller][i].is_paired /\ ~file_infos[Caller][j].is_paired

\* C6: when the sibling-stem caption of an image exists the record is paired
\* with it; the full-name caption is chosen only when the sibling-stem caption
\* does not exist.
C6_SiblingStemWins ==
    Scanned =>
    \A i \in 1..Len(file_infos[Caller]) :
        LET rec     == file_infos[Caller][i]
            sibling == Splitext[rec.image_path].root \o DotTxt
            full    == rec.image_path \o DotTxt
        IN  /\ sibling \in DOMAIN fs => rec.text_path = sibling
            /\ rec.text_path = full => sibling \notin DOMAIN fs
            /\ (sibling \notin DOMAIN fs /\ full \in DOMAIN fs) => rec.text_path = full

\* A scan of a folder that holds both captions of an image.
C6_Witness ==
    /\ Scanned
    /\ {N_a_jpg, N_a_txt, N_a_jpg_txt} \subseteq DOMAIN fs
    /\ \E i \in 1..Len(file_infos[Caller]) :
         file_infos[Caller][i].image_path = N_a_jpg /\ file_infos[Caller][i].text_path = N_a_txt

\* C7: the unpaired-caption list is exactly the caption files that are the
\* text_path of no returned record, in sorted caption filename order.
C7_UnpairedCaptions ==
    Scanned =>
    LET recs == file_infos[Caller]
        unps == unpaired_files[Caller]
    IN  /\ {unps[i] : i \in 1..Len(unps)}
             = TextsOf(DOMAIN fs) \ {recs[i].text_path : i \in 1..Len(recs)}
        /\ \A i \in 1..(Len(unps) - 1) : StrLess(unps[i], unps[i + 1])

\* A scan with a used full-name caption, a left-over caption and an unpaired image.
C7_Witness ==
    /\ Scanned
    /\ unpaired_files[Caller] # <<>>
    /\ \E i, j \in 1..Len(file_infos[Caller]) :
         /\ file_infos[Caller][i].text_path = file_infos[Caller][i].image_path \o DotTxt
         /\ ~file_infos[Caller][j].is_paired


\* ------------------------------------------------------ auto_post_process runs

\* The unpaired subfolder before the first run: absent, or left by an earlier
\* run with a caption in it.
InitUnpaired ==
    \/ unpExists = FALSE /\ unp = EmptyDir
    \/ unpExists = TRUE /\ unp = [n \in {N_b_TXT} |-> UnpInode(n)]

\* Two threads that each call auto_post_process once, on one processor and
\* one folder.
InitAuto ==
    /\ folderExists \in BOOLEAN
    /\ fs \in IF folderExists THEN {MkDir(S) : S \in AutoFolders} ELSE {EmptyDir}
    /\ IF folderExists THEN InitUnpaired ELSE (unpExists = FALSE /\ unp = EmptyDir)
    /\ data = InitData
    /\ faults = MaxFaults
    /\ pc = [t \in Threads |-> "idle"]
    /\ op = [t \in Threads |-> "none"]
    /\ file_infos = [t \in Threads |-> <<>>]
    /\ InitLocals
    /\ snap = [t \in Threads |-> Snapshot]

AutoStep(t) ==
    \/ AutoCall(t)
    \/ AutoAcquire(t)
    \/ AutoScan1(t)
    \/ UnpairedBegin(t)
    \/ UnpairedMove(t)
    \/ UnpairedEnd(t)
    \/ RenameBegin(t)
    \/ RenameTemp(t)
    \/ RenameFinal(t)
    \/ RenameEnd(t)
    \/ AutoScan2(t)
    \/ StandardizeBegin(t)
    \/ StandardizeStep(t)
    \/ StandardizeEnd(t)
    \/ AutoSummary(t)

NextAuto == \E t \in Threads : AutoStep(t)

SpecAuto == InitAuto /\ [][NextAuto]_vars


InitAutoFair == InitAuto /\ Cardinality(DOMAIN fs) <= MaxFairFiles

\* The scheduler lets every thread that can take a step take one eventually.
SpecAutoFair ==
    InitAutoFair /\ [][NextAuto]_vars /\ \A t \in Threads : WF_vars(AutoStep(t))

\* ------------------------------------------------- auto_post_process claims

\* Thread t is between its initial scan and the end of its standardize step.
InRun(t) == pc[t] \notin {"idle", "acquire", "returned"}

\* C8 (as claimed): when auto_post_process ends without errors, every image
\* and every caption that the initial scan left unpaired is in the unpaired
\* subfolder and no longer in the dataset folder.
C8_UnpairedRelocated ==
    \A t \in Threads :
        (pc[t] = "summary" /\ overall[t].errors = <<>>) =>
        LET sc == scan_and_match_files(DOMAIN snap[t].fs)
            orphans ==
                { sc.paired_files[i].image_path :
                    i \in {j \in 1..Len(sc.paired_files) : ~sc.paired_files[j].is_paired} }
                \cup { sc.unpaired_files[i] : i \in 1..Len(sc.unpaired_files) }
        IN  \A f \in orphans :
                /\ snap[t].fs[f] \in Range(unp)
                /\ snap[t].fs[f] \notin Range(fs)

\* C9: two auto_post_process runs never interleave: at most one thread is
\* between its initial scan and the end of its standardize step, and that
\* thread holds the lock.
C9_NoInterleaving ==
    /\ \A t, u \in Threads : (InRun(t) /\ InRun(u)) => t = u
    /\ \A t \in Threads : InRun(t) => lock = t

\* One run is in the middle of its Phase-2 renames while the other call waits.
C9_Witness ==
    \E t, u \in Threads :
        /\ pc[t] = "rename_final" /\ k[t] > 1 /\ k[t] <= Len(final_renames[t])
        /\ pc[u] = "acquire"

\* C10: the lock is free of a call that has ended, on every exit path, and
\* every call waiting for the lock eventually enters.
C10_GuardReleased ==
    /\ [](\A t \in Threads : pc[t] = "returned" => lock # t)
    /\ \A t \in Threads : (pc[t] = "acquire") ~> (lock = t)

\* A call ended on the missing folder and the other call then entered.
C10_Witness ==
    \E t, u \in Threads :
        /\ ~folderExists
        /\ pc[t] = "returned" /\ overall[t].errors # <<>>
        /\ pc[u] = "scan1" /\ lock = u

\* ------------------------------------------------- claims about the outcomes

\* Thread t has returned from the operation op with its ProcessResult.
Returned(t, operation) == op[t] = operation /\ pc[t] \in {"done", "returned"}

\* The folders hold what they held when the call began.
DiskUntouched(t) ==
    /\ folderExists = snap[t].exists
    /\ fs = snap[t].fs
    /\ unp = snap[t].unp
    /\ data = snap[t].data

\* C11: whichever operation returns (rename_files, standardize_tags,
\* manual_tag_process, handle_unpaired_files, auto_post_process), its outcome
\* has success = TRUE exactly when its errors list is empty.
C11_SuccessIffNoErrors ==
    \A t \in Threads :
        /\ \A operation \in {"rename", "standardize", "edit", "unpaired"} :
               Returned(t, operation) =>
                   (result[t].success <=> result[t].errors = <<>>)
        /\ Returned(t, "auto") => (overall[t].success <=> overall[t].errors = <<>>)

\* C11 (witness): auto_post_process has returned from an existing folder with
\* an item error and without success.
C11_Witness ==
    /\ Returned(Caller, "auto")
    /\ folderExists
    /\ overall[Caller].errors # <<>>
    /\ ~overall[Caller].success

\* C12: on a missing folder scan_and_match_files fails and returns no
\* records, and auto_post_process goes from the failed scan straight to its
\* return, with a failed outcome (no success, an error) and the folders as
\* they were: nothing renamed, moved, created or written.
C12_MissingFolderAborts ==
    \A t \in Threads :
        /\ (op[t] = "scan" /\ ~snap[t].exists /\ pc[t] # "scan") =>
               /\ pc[t] = "raised"
               /\ file_infos[t] = <<>> /\ unpaired_files[t] = <<>>
        /\ (op[t] = "auto" /\ ~snap[t].exists) =>
               /\ pc[t] \in {"acquire", "scan1", "returned"}
               /\ DiskUntouched(t) /\ ~unpExists
               /\ pc[t] = "returned" =>
                      ~overall[t].success /\ overall[t].errors # <<>>

\* C12 (witness): auto_post_process has returned from a missing folder.
C12_Witness ==
    /\ Returned(Caller, "auto")
    /\ ~snap[Caller].exists
    /\ overall[Caller].errors # <<>>

\* ---------------------------------------------- claims about the tag normalizer

\* The text of the caption file named f.
TextOf(f) == data[fs[f]]

\* The positions of tag that hold a parenthesis with no backslash before it.
BareParens(tag) ==
    {n \in 1..Len(tag) : tag[n] \in {"(", ")"} /\ (n = 1 \/ tag[n - 1] # "\\")}

\* auto_standardize_tags gives the text y back as it is.
FixedPoint[y \in PyStr] == auto_standardize_tags[y] = y

\* C13: auto_standardize_tags is idempotent, f(f(x)) = f(x) for every caption
\* text x, and the escaping adds a backslash to the parentheses that have none
\* and to no other: a parenthesis already escaped is not escaped again.
C13_Idempotent ==
    \A f \in DOMAIN fs :
        IsText(f) =>
            /\ FixedPoint[auto_standardize_tags[TextOf(f)]]
            /\ Len(EscapeParens[TextOf(f)])
                   = Len(TextOf(f)) + Cardinality(BareParens(TextOf(f)))
            /\ EscapeParens[EscapeParens[TextOf(f)]] = EscapeParens[TextOf(f)]

\* C13 (witness): standardize_tags has rewritten a caption that held an
\* escaped and a bare parenthesis.
C13_Witness ==
    /\ Returned(Caller, "standardize")
    /\ result[Caller].standardized_tags = 1
    /\ snap[Caller].data[InodeOf(N_a_txt)] = << "\\", "(", "a", ")" >>
    /\ TextOf(N_a_txt) = << "\\", "(", "a", "\\", ")" >>

\* The members of the set of numbers I in increasing order.
Ascending(I) ==
    [j \in 1..Cardinality(I) |-> CHOOSE i \in I : Cardinality({h \in I : h < i}) = j - 1]

\* The pieces of s between the characters that are in seps, in order.
Pieces[s \in PyStr, seps \in SUBSET STRING] ==
    LET cuts == Ascending({0} \cup {i \in 1..Len(s) : s[i] \in seps} \cup {Len(s) + 1})
    IN  [j \in 1..(Len(cuts) - 1) |-> SubSeq(s, cuts[j] + 1, cuts[j + 1] - 1)]

\* The lists of a list of lists, put end to end.
Flatten[lists \in Seq(Seq(PyStr))] ==
    IF lists = <<>> THEN <<>> ELSE Head(lists) \o Flatten[Tail(lists)]

\* s without its leading and trailing blanks and newlines.
Trimmed[s \in PyStr] ==
    LET inked == {i \in 1..Len(s) : s[i] \notin {" ", "\n"}}
    IN  IF inked = {} THEN <<>>
        ELSE SubSeq(s, CHOOSE i \in inked : \A h \in inked : i <= h,
                       CHOOSE i \in inked : \A h \in inked : h <= i)

\* The tags of a list trimmed, the empty ones dropped.
TrimmedTags[tags \in Seq(PyStr)] ==
    LET trimmed == [i \in 1..Len(tags) |-> Trimmed[tags[i]]]
        kept    == Ascending({i \in 1..Len(tags) : trimmed[i] # <<>>})
    IN  [j \in 1..Len(kept) |-> trimmed[kept[j]]]

\* tag with a backslash put before each parenthesis that has none before it.
Escaped[tag \in PyStr] ==
    LET bare == BareParens(tag)
        place == [n \in 1..Len(tag) |-> n + Cardinality({b \in bare : b <= n})]
    IN  [j \in 1..(Len(tag) + Cardinality(bare)) |->
            IF \E n \in 1..Len(tag) : place[n] = j
            THEN tag[CHOOSE n \in 1..Len(tag) : place[n] = j]
            ELSE "\\"]

\* The first occurrences of the tags of a list, in order.
FirstOccurrences[tags \in Seq(PyStr)] ==
    LET firsts == Ascending({i \in 1..Len(tags) : \A h \in 1..(i - 1) : tags[h] # tags[i]})
    IN  [j \in 1..Len(firsts) |-> tags[firsts[j]]]

\* The tags of a list with a comma and a blank between them.
Joined[tags \in Seq(PyStr)] ==
    IF tags = <<>> THEN <<>>
    ELSE IF Tail(tags) = <<>> THEN Head(tags)
    ELSE Head(tags) \o <<",", " ">> \o Joined[Tail(tags)]

\* The text the steps of C14 make of the text x.
Normalized[x \in PyStr] ==
    LET lines    == Pieces[x, {"\n"}]
        split    == [i \in 1..Len(lines) |->
                        IF \E n \in 1..Len(lines[i]) : lines[i][n] = ","
                        THEN Pieces[lines[i], {","}] ELSE <<lines[i]>>]
        tags     == TrimmedTags[Flatten[split]]
        replaced == [i \in 1..Len(tags) |->
                        [n \in 1..Len(tags[i]) |->
                            IF tags[i][n] \in {"_", "-"} THEN " " ELSE tags[i][n]]]
        escaped  == [i \in 1..Len(replaced) |-> Escaped[replaced[i]]]
    IN  Joined[FirstOccurrences[TrimmedTags[escaped]]]

\* C14: auto_standardize_tags returns, for every text, the tags got by
\* splitting on newlines, splitting the lines that hold a comma on commas,
\* trimming and dropping empty tags, replacing underscores and hyphens by
\* blanks, escaping the parentheses that no backslash precedes, trimming and
\* dropping empties again, keeping first occurrences only, and joining with
\* ", "; an empty or blank text gives the empty string; "a_b-c" gives "a b c"
\* and "1girl\n(smiling)" gives "1girl, \(smiling\)" (the two examples are
\* evaluated in the states before the call); standardize_tags writes that
\* text to the caption.
C14_NormalForm ==
    /\ \A f \in DOMAIN fs :
           IsText(f) =>
               /\ auto_standardize_tags[TextOf(f)] = Normalized[TextOf(f)]
               /\ Trimmed[TextOf(f)] = <<>> => auto_standardize_tags[TextOf(f)] = <<>>
    /\ (\A t \in Threads : pc[t] = "idle") =>
           /\ auto_standardize_tags[<< "a", "_", "b", "-", "c" >>]
                  = << "a", " ", "b", " ", "c" >>
           /\ auto_standardize_tags[<< "1", "g", "i", "r", "l", "\n",
                                       "(", "s", "m", "i", "l", "i", "n", "g", ")" >>]
                  = << "1", "g", "i", "r", "l", ",", " ",
                       "\\", "(", "s", "m", "i", "l", "i", "n", "g", "\\", ")" >>
    /\ (Returned(Caller, "standardize") /\ result[Caller].standardized_tags = 1) =>
           TextOf(N_a_txt) = Normalized[snap[Caller].data[InodeOf(N_a_txt)]]

\* C14 (witness): standardize_tags has rewritten a caption of two lines, one
\* with a hyphen and one with a parenthesis.
C14_Witness ==
    /\ Returned(Caller, "standardize")
    /\ result[Caller].standardized_tags = 1
    /\ snap[Caller].data[InodeOf(N_a_txt)] = << "a", "-", "\n", "(" >>
    /\ TextOf(N_a_txt) = << "a", ",", " ", "\\", "(" >>

\* ------------------------------------------------- claims about the tag editor

\* The members of a list that are in the set keep, in order.
Kept(tags, keep) ==
    LET places == Ascending({i \in 1..Len(tags) : tags[i] \in keep})
    IN  [j \in 1..Len(places) |-> tags[places[j]]]

\* The string sub is found somewhere in the string s.
Within(sub, s) == \E i, j \in 0..Len(s) : i <= j /\ SubSeq(s, i + 1, j) = sub

\* The text the description of C15 makes of the text x and the arguments;
\* added is add_tags in the order the set yields its members.
Edited[x \in PyStr, removeExact \in TagSets, removeContaining \in TagSets, added \in Seq(PyStr)] ==
    LET tags      == TrimmedTags[Pieces[x, {","}]]
        remaining == Kept(tags, {tag \in Range(tags) :
                                    /\ tag \notin removeExact
                                    /\ \A sub \in removeContaining : ~Within(sub, tag)})
        new       == Kept(added, Range(added) \ Range(remaining))
    IN  Joined[FirstOccurrences[remaining \o new]]

\* The text thread t's manual_tag_process makes of the text x.
EditOf(t, x) ==
    clean_and_edit_tags[x, edit_args[t].remove_tags, edit_args[t].remove_containing,
                        edit_args[t].add_tags_set]

\* What C15 says thread t's manual_tag_process makes of the text x.
EditedOf(t, x) ==
    Edited[x, edit_args[t].remove_tags, edit_args[t].remove_containing,
           edit_args[t].add_tags_set]

\* C15: for a text that is not blank, clean_and_edit_tags returns, joined with
\* ", ", the tags of the text in their order without those equal to a member
\* of remove_tags and without those that contain a member of
\* remove_containing, followed by the members of add_tags not among the
\* remaining ones, first occurrences only; "a, b, c" with remove {b} and add
\* {d} gives "a, c, d" (the example is evaluated in the states before the
\* call); manual_tag_process writes that text to the caption.
C15_EditedTags ==
    /\ \A t \in Threads : \A f \in DOMAIN fs :
           (op[t] = "edit" /\ IsText(f) /\ Trimmed[TextOf(f)] # <<>>) =>
               EditOf(t, TextOf(f)) = EditedOf(t, TextOf(f))
    /\ (\A t \in Threads : pc[t] = "idle") =>
           clean_and_edit_tags[<< "a", ",", " ", "b", ",", " ", "c" >>,
                               {<<"b">>}, {}, << <<"d">> >>]
               = << "a", ",", " ", "c", ",", " ", "d" >>
    /\ \A t \in Threads :
           (Returned(t, "edit") /\ result[t].processed_files = 1
              /\ Trimmed[snap[t].data[InodeOf(N_a_txt)]] # <<>>) =>
               TextOf(N_a_txt) = EditedOf(t, snap[t].data[InodeOf(N_a_txt)])

\* C15 (witness): manual_tag_process has rewritten "ab,b,a" with b removed,
\* the tags containing a removed and a and d added.
C15_Witness ==
    /\ Returned(Caller, "edit")
    /\ result[Caller].processed_files = 1
    /\ snap[Caller].data[InodeOf(N_a_txt)] = << "b", " ", ",", "a", "b" >>
    /\ edit_args[Caller] = [remove_tags |-> {<<"b">>}, remove_containing |-> {<<"a">>},
                            add_tags |-> << <<"a">>, <<"d">> >>,
                            add_tags_set |-> << <<"d">>, <<"a">> >>]
    /\ TextOf(N_a_txt) = << "d", ",", " ", "a" >>

\* C16: clean_and_edit_tags returns the empty string for an empty or blank
\* text whatever remove_tags, remove_containing and add_tags hold, and
\* manual_tag_process leaves an empty caption file empty, add_tags empty or
\* not.
C16_EmptyStaysEmpty ==
    /\ \A t \in Threads : \A f \in DOMAIN fs :
           (op[t] = "edit" /\ IsText(f) /\ Trimmed[TextOf(f)] = <<>>) =>
               EditOf(t, TextOf(f)) = <<>>
    /\ clean_and_edit_tags[<<>>, {}, {}, << <<"x">> >>] = <<>>
    /\ \A t \in Threads : \A f \in DOMAIN fs :
           (Returned(t, "edit") /\ IsText(f) /\ snap[t].data[fs[f]] = <<>>) =>
               TextOf(f) = <<>>

\* C16 (witness): manual_tag_process with tags to add has processed an empty
\* caption file.
C16_Witness ==
    /\ Returned(Caller, "edit")
    /\ result[Caller].processed_files = 1
    /\ edit_args[Caller].add_tags_set = << <<"d">>, <<"a">> >>
    /\ snap[Caller].data[InodeOf(N_a_txt)] = <<>>
    /\ TextOf(N_a_txt) = <<>>

\* ------------------------------------------- claims about the unpaired handler

\* Thread t is inside handle_unpaired_files or has returned from it.
InUnpaired(t) ==
    \/ pc[t] \in {"unpaired_begin", "unpaired_move", "unpaired_end"}
    \/ Returned(t, "unpaired")

\* name with _n put before its extension (the last dot and what follows it,
\* unless the dot leads the name).
Suffixed(name, n) ==
    LET dots == {i \in 2..Len(name) : name[i] = "."}
        cut  == IF dots = {} THEN Len(name) + 1
                ELSE CHOOSE i \in dots : \A h \in dots : h <= i
        num  == << <<"1">>, <<"2">>, <<"3">>, <<"4">>, <<"5">>,
                   <<"6">>, <<"7">>, <<"8">>, <<"9">> >>
    IN  SubSeq(name, 1, cut - 1) \o <<"_">> \o num[n] \o SubSeq(name, cut, Len(name))

\* The name a file called name is to get in the directory dir: its own if it
\* is free, else the first free one among name_1, name_2, ...
FirstFree(dir, name) ==
    IF name \notin DOMAIN dir THEN name
    ELSE LET free == {n \in 1..9 : Suffixed(name, n) \notin DOMAIN dir}
         IN  Suffixed(name, CHOOSE n \in free : \A h \in free : n <= h)

\* Every file the unpaired subfolder held when the call began is still there,
\* with its content, and every other file in it came out of the dataset
\* folder, with its content, and is no longer there.
NothingLost(t) ==
    /\ \A n \in DOMAIN snap[t].unp :
           /\ n \in DOMAIN unp
           /\ unp[n] = snap[t].unp[n]
           /\ data[unp[n]] = snap[t].data[unp[n]]
    /\ \A n \in DOMAIN unp \ DOMAIN snap[t].unp :
           /\ \E f \in DOMAIN snap[t].fs :
                  /\ snap[t].fs[f] = unp[n]
                  /\ \E i \in 1..Len(unpaired_files[t]) : unpaired_files[t][i] = f
           /\ data[unp[n]] = snap[t].data[unp[n]]
           /\ unp[n] \notin Range(fs)
           /\ unp[n] \notin {unp[m] : m \in DOMAIN unp \ {n}}
    /\ \A f \in DOMAIN snap[t].fs :
           snap[t].fs[f] \in Range(fs) \cup Range(unp)

\* A step of the move loop that changes a directory moves the file at hand
\* to the first free name, and touches nothing else.
MovedToFirstFree(t) ==
    (pc[t] = "unpaired_move" /\ << fs, unp >> # << fs', unp' >>) =>
        LET filename == unpaired_files[t][k[t]]
            dest     == FirstFree(unp, filename)
        IN  /\ filename \in DOMAIN fs
            /\ dest \notin DOMAIN unp
            /\ DOMAIN unp' = DOMAIN unp \cup {dest}
            /\ unp'[dest] = fs[filename]
            /\ \A n \in DOMAIN unp : unp'[n] = unp[n]
            /\ DOMAIN fs' = DOMAIN fs \ {filename}
            /\ \A n \in DOMAIN fs' : fs'[n] = fs[n]
            /\ data' = data

\* C17: handle_unpaired_files overwrites and deletes nothing: a moved file
\* gets its own name in the unpaired subfolder if that name is free, else the
\* first free name among name_1, name_2, ... (the suffix before the
\* extension); the files the subfolder held before the call are still there
\* unchanged, and the moved files are there with the content they had.
C17_MoveKeepsEverything ==
    /\ [](\A t \in Threads : InUnpaired(t) => NothingLost(t))
    /\ [][\A t \in Threads : MovedToFirstFree(t)]_vars

\* C17 (witness): b.TXT has been moved into a subfolder that held b.TXT and
\* b_1.TXT, and is there as b_2.TXT.
C17_Witness ==
    /\ Returned(Caller, "unpaired")
    /\ result[Caller].unpaired_files >= 1
    /\ DOMAIN snap[Caller].unp = {N_b_TXT, N_b_1_TXT}
    /\ N_b_TXT \in DOMAIN snap[Caller].fs
    /\ <<"b", "_", "2", ".", "T", "X", "T">> \in DOMAIN unp
    /\ unp[<<"b", "_", "2", ".", "T", "X", "T">>] = snap[Caller].fs[N_b_TXT]
    /\ unp[N_b_TXT] = snap[Caller].unp[N_b_TXT]

\* ------------------------------------------- claims about manual_tag_process

\* The inodes of the caption files that lie directly in the dataset folder.
CaptionInodes == {fs[f] : f \in {g \in DOMAIN fs : IsText(g)}}

\* C18: manual_tag_process renames, moves and creates nothing and changes the
\* content of no file but the captions that lie directly in the folder (no
\* image, no file of the unpaired subfolder); when it returns without errors,
\* every caption of the folder, paired with an image or not, holds what
\* clean_and_edit_tags makes of its content at the call, and a caption it
\* could not rewrite holds its old content or was truncated by the open.
C18_EveryCaptionEdited ==
    \A t \in Threads :
        op[t] = "edit" =>
            /\ folderExists = snap[t].exists /\ fs = snap[t].fs
            /\ unp = snap[t].unp
            /\ \A i \in DOMAIN data \ CaptionInodes : data[i] = snap[t].data[i]
            /\ \A i \in CaptionInodes :
                   data[i] \in {snap[t].data[i], EditOf(t, snap[t].data[i]), <<>>}
            /\ (Returned(t, "edit") /\ result[t].errors = <<>>) =>
                   /\ \A i \in CaptionInodes : data[i] = EditOf(t, snap[t].data[i])
                   /\ result[t].processed_files = Cardinality(CaptionInodes)

\* C18 (witness): manual_tag_process has rewritten the caption a.txt of the
\* image a.jpg and the caption b.TXT that has no image, next to an unpaired
\* subfolder that holds a caption.
C18_Witness ==
    /\ Returned(Caller, "edit")
    /\ result[Caller].errors = <<>>
    /\ result[Caller].processed_files = 2
    /\ DOMAIN fs = {N_a_jpg, N_a_txt, N_b_TXT}
    /\ N_b_TXT \in DOMAIN unp
    /\ edit_args[Caller].add_tags = << <<"d">> >>
    /\ TextOf(N_a_txt) # snap[Caller].data[InodeOf(N_a_txt)]
    /\ TextOf(N_b_TXT) = << "x", ",", " ", "d" >>

\* ------------------------------------------------ claims about frame and names

\* C19: scan_and_match_files changes nothing on disk: the folder, the names
\* in it and in its unpaired subfolder and the content of every file are,
\* after the call, what they were before it, whether it returned or raised.
C19_ScanReadsOnly ==
    \A t \in Threads :
        (op[t] = "scan" /\ pc[t] \in {"done", "raised"}) =>
            /\ DiskUntouched(t)
            /\ DOMAIN fs = DOMAIN snap[t].fs
            /\ \A f \in DOMAIN fs : TextOf(f) = snap[t].data[snap[t].fs[f]]
            /\ ~unpExists
            /\ pc[t] = "raised" <=> ~folderExists

\* C19 (witness): a scan has returned a paired record and an unpaired caption.
C19_Witness ==
    /\ Scanned
    /\ unpaired_files[Caller] # <<>>
    /\ \E i \in 1..Len(file_infos[Caller]) : file_infos[Caller][i].is_paired
    /\ Cardinality(DOMAIN fs) = MaxFiles

\* C20 (as claimed): when rename_files works on the records the scanner
\* returned for the folder, no Phase-1 rename has for target a temporary name
\* temp_<index><ext> that another file of the folder holds at that moment.
C20_TempNamesFree ==
    \A t \in Threads :
        ( /\ op[t] = "rename" /\ pc[t] = "rename_temp"
          /\ k[t] <= Len(temp_renames[t])
          /\ file_infos[t] = scan_and_match_files(DOMAIN snap[t].fs).paired_files )
        =>
        LET old_path  == temp_renames[t][k[t]][1]
            temp_path == temp_renames[t][k[t]][2]
        IN  (folderExists /\ old_path \in DOMAIN fs /\ temp_path \in DOMAIN fs)
                => temp_path = old_path

\* ----------------------------------------- claims about the frame of the batch

\* The names the records of thread t refer to: their images and captions.
Referenced(t) ==
    {file_infos[t][i].image_path : i \in 1..Len(file_infos[t])}
        \cup {file_infos[t][i].text_path : i \in 1..Len(file_infos[t])}

\* C21 (as claimed): rename_files and standardize_tags change only the files
\* their records refer to: every file of the folder that is neither the image
\* nor the caption of a record has, after the call, the name and the content
\* it had before it.
C21_OnlyReferencedFiles ==
    \A t \in Threads :
        (Returned(t, "rename") \/ Returned(t, "standardize")) =>
            \A f \in DOMAIN snap[t].fs \ Referenced(t) :
                /\ f \in DOMAIN fs
                /\ fs[f] = snap[t].fs[f]
                /\ data[fs[f]] = snap[t].data[snap[t].fs[f]]

\* ------------------------------------- claims about the errors of rename_files

\* The file of the j-th rename of thread t's batch is in the folder under its
\* final name.
ReachedFinal(t, j) ==
    LET old_path   == temp_renames[t][j][1]
        final_path == final_renames[t][j][2]
    IN  /\ old_path \in DOMAIN snap[t].fs
        /\ final_path \in DOMAIN fs
        /\ fs[final_path] = snap[t].fs[old_path]

\* C22 (as claimed): in every outcome of rename_files the errors list holds
\* one error per failed file: as many errors as files of the batch that did
\* not reach their final name.
C22_OneErrorPerFailedFile ==
    \A t \in Threads :
        Returned(t, "rename") =>
            Len(result[t].errors)
                = Cardinality({j \in 1..Len(temp_renames[t]) : ~ReachedFinal(t, j)})

\* The errors list of thread t holds an error of the kind for the path.
HasError(t, kind, path) ==
    \E i \in 1..Len(result[t].errors) : result[t].errors[i] = <<kind, path>>

\* The number of errors of the kind in the errors list of thread t.
ErrorCount(t, kind) ==
    Cardinality({i \in 1..Len(result[t].errors) : result[t].errors[i][1] = kind})

\* C23 (as claimed): renamed_files is the number of Phase-1 renames that
\* succeeded, and a file whose Phase-1 rename succeeded and whose Phase-2
\* rename failed is in the folder under its temporary name with its content,
\* the outcome holding an error for it and no success.
C23_LeftUnderTempName ==
    \A t \in Threads :
        Returned(t, "rename") =>
            /\ result[t].renamed_files
                   = Len(temp_renames[t]) - ErrorCount(t, "temp_rename")
            /\ \A j \in 1..Len(temp_renames[t]) :
                   LET old_path  == temp_renames[t][j][1]
                       temp_path == temp_renames[t][j][2]
                   IN  ( /\ ~HasError(t, "temp_rename", old_path)
                         /\ HasError(t, "final_rename", temp_path) )
                       =>
                       /\ temp_path \in DOMAIN fs
                       /\ fs[temp_path] = snap[t].fs[old_path]
                       /\ data[fs[temp_path]] = snap[t].data[snap[t].fs[old_path]]
                       /\ ~result[t].success

\* The number of Phase-1 renames thread t has attempted: those that succeeded
\* and those that left an error.
Phase1Attempts(t) == result[t].renamed_files + ErrorCount(t, "temp_rename")

\* The step is a Phase-2 attempt of thread t: it appends a Phase-2 error or
\* renames a file from the temporary to the final name of an entry.
Phase2Attempt(t) ==
    \/ /\ Len(result'[t].errors) = Len(result[t].errors) + 1
       /\ result'[t].errors[Len(result'[t].errors)][1] = "final_rename"
    \/ \E j \in 1..Len(final_renames[t]) :
          /\ final_renames[t][j][1] \in DOMAIN fs
          /\ fs' # fs
          /\ fs' = OsRename(fs, final_renames[t][j][1], final_renames[t][j][2])

\* C24: in rename_files no rename from a temporary to a final name is
\* attempted before every rename from a source to a temporary name has been
\* attempted, failed ones included: Phase 1 attempts its entries one by one
\* without any Phase-2 error, and every Phase-2 attempt finds all of Phase 1
\* attempted.
C24_TwoPhaseOrder ==
    /\ [](\A t \in Threads :
            /\ pc[t] = "rename_temp" =>
                   /\ Phase1Attempts(t) = k[t] - 1
                   /\ ErrorCount(t, "final_rename") = 0
            /\ (pc[t] \in {"rename_final", "rename_end"} \/ Returned(t, "rename")) =>
                   Phase1Attempts(t) = Len(temp_renames[t]))
    /\ [][\A t \in Threads :
            (pc[t] \in {"rename_temp", "rename_final"} /\ Phase2Attempt(t)) =>
                /\ pc[t] = "rename_final"
                /\ Phase1Attempts(t) = Len(temp_renames[t])]_vars

\* C24 (witness): Phase 2 is under way after a Phase 1 of several renames of
\* which one failed.
C24_Witness ==
    /\ pc[Caller] = "rename_final"
    /\ k[Caller] > 1
    /\ Len(temp_renames[Caller]) >= 2
    /\ ErrorCount(Caller, "temp_rename") = 1
    /\ result[Caller].renamed_files = Len(temp_renames[Caller]) - 1

\* ---------------------------------------------- claims about failing items

\* The items of the loop thread t is in.
BatchOf(t) ==
    CASE pc[t] = "rename_temp"      -> temp_renames[t]
      [] pc[t] = "rename_final"     -> final_renames[t]
      [] pc[t] = "standardize_loop" -> file_infos[t]
      [] pc[t] = "edit_loop"        -> txt_files[t]
      [] pc[t] = "unpaired_move"    -> unpaired_files[t]
      [] OTHER                      -> <<>>

\* A step of thread t inside a loop with an item at hand goes to the next
\* item of the same loop, whatever became of the item, and at most appends
\* one error to the errors it had.
LoopGoesOn(t) ==
    (k[t] <= Len(BatchOf(t)) /\ << pc[t], k[t], result[t] >> # << pc'[t], k'[t], result'[t] >>) =>
        /\ pc'[t] = pc[t]
        /\ k'[t] = k[t] + 1
        /\ Len(result'[t].errors) \in {Len(result[t].errors), Len(result[t].errors) + 1}
        /\ SubSeq(result'[t].errors, 1, Len(result[t].errors)) = result[t].errors

\* The records of thread t that standardize_tags rewrites: those whose
\* caption exists.
Rewritable(t) ==
    {i \in 1..Len(file_infos[t]) :
        /\ file_infos[t][i].text_path # None
        /\ file_infos[t][i].text_path \in DOMAIN fs}

\* What the returned call of thread t reports adds up to the items of its
\* batch, and the items without an error were completed.
AllAttempted(t) ==
    /\ Returned(t, "rename") =>
           /\ Phase1Attempts(t) = Len(temp_renames[t])
           /\ ErrorCount(t, "final_rename") <= Len(final_renames[t])
    /\ Returned(t, "standardize") =>
           /\ result[t].standardized_tags + Len(result[t].errors)
                  = Cardinality(Rewritable(t))
           /\ \A i \in Rewritable(t) :
                  LET text_path == file_infos[t][i].text_path
                  IN  ~HasError(t, "standardize", text_path) =>
                          TextOf(text_path)
                              = auto_standardize_tags[snap[t].data[fs[text_path]]]
    /\ (Returned(t, "edit") /\ snap[t].exists) =>
           /\ result[t].processed_files + Len(result[t].errors) = Len(txt_files[t])
           /\ \A i \in 1..Len(txt_files[t]) :
                  ~HasError(t, "edit", txt_files[t][i]) =>
                      TextOf(txt_files[t][i])
                          = EditOf(t, snap[t].data[fs[txt_files[t][i]]])
    /\ (Returned(t, "unpaired") /\ ~HasError(t, "makedirs", <<>>)) =>
           /\ result[t].unpaired_files + Len(result[t].errors)
                  = Len(unpaired_files[t])
           /\ \A i \in 1..Len(unpaired_files[t]) :
                  ~HasError(t, "move", unpaired_files[t][i]) =>
                      /\ unpaired_files[t][i] \notin DOMAIN fs
                      /\ snap[t].fs[unpaired_files[t][i]] \in Range(unp)

\* C25: in rename_files, standardize_tags, manual_tag_process and
\* handle_unpaired_files a failure on one file is appended to the errors and
\* does not stop the batch: every loop goes on to its next item, the call
\* returns an outcome (only the scanner raises), counter and errors add up to
\* the items of the batch, and the counter counts completed items only.
C25_ContinueOnError ==
    /\ [](\A t \in Threads :
            /\ AllAttempted(t)
            /\ pc[t] = "raised" => op[t] = "scan")
    /\ [][\A t \in Threads : LoopGoesOn(t)]_vars

\* C25 (witness): manual_tag_process has returned from a folder of two
\* captions, with an error for the first and the second rewritten.
C25_Witness ==
    /\ Returned(Caller, "edit")
    /\ Len(txt_files[Caller]) = 2
    /\ HasError(Caller, "edit", txt_files[Caller][1])
    /\ ~HasError(Caller, "edit", txt_files[Caller][2])
    /\ result[Caller].processed_files = 1
    /\ edit_args[Caller].add_tags = << <<"d">> >>
    /\ TextOf(txt_files[Caller][2]) # snap[Caller].data[fs[txt_files[Caller][2]]]

\* --------------------------------------------- claims about the order of adds

\* C26 (as claimed): manual_tag_process appends the members of add_tags that
\* a caption lacks in the order of the list the caller gave, so that the text
\* of every caption after the call is fixed by the folder and the arguments.
C26_AddsInCallerOrder ==
    \A t \in Threads :
        (Returned(t, "edit") /\ result[t].errors = <<>>) =>
            \A f \in DOMAIN fs :
                (IsText(f) /\ Trimmed[snap[t].data[fs[f]]] # <<>>) =>
                    TextOf(f) = Edited[snap[t].data[fs[f]], edit_args[t].remove_tags,
                                       edit_args[t].remove_containing,
                                       edit_args[t].add_tags]

\* ------------------------------------------- claims about pairing across a run

\* The records of the initial scan of thread t's run.
InitialRecords(t) == scan_and_match_files(DOMAIN snap[t].fs).paired_files

\* The re-scan of thread t's auto_post_process has just returned its records,
\* and the run has no error so far.
Rescanned(t) ==
    op[t] = "auto" /\ pc[t] = "standardize_begin" /\ overall[t].errors = <<>>

\* C27: in an auto_post_process run without errors the re-scan after the
\* rename pairs every image the initial scan paired with the caption file it
\* had, content unchanged, both under the number of the record; it pairs no
\* image with a caption the initial scan gave to another image, and no image
\* the initial scan left unpaired.
C27_PairingPreserved ==
    \A t \in Threads :
        Rescanned(t) =>
            LET before == InitialRecords(t)
                after  == file_infos[t]
            IN  /\ \A i \in 1..Len(before) :
                       before[i].is_paired =>
                           \E j \in 1..Len(after) :
                               /\ fs[after[j].image_path] = snap[t].fs[before[i].image_path]
                               /\ after[j].is_paired
                               /\ fs[after[j].text_path] = snap[t].fs[before[i].text_path]
                               /\ TextOf(after[j].text_path)
                                      = snap[t].data[snap[t].fs[before[i].text_path]]
                               /\ Splitext[after[j].image_path].root
                                      = Str[rename_start_index + i - 1]
                               /\ after[j].text_path
                                      = Str[rename_start_index + i - 1] \o DotTxt
                /\ \A j \in 1..Len(after) :
                       after[j].is_paired =>
                           \E i \in 1..Len(before) :
                               /\ before[i].is_paired
                               /\ snap[t].fs[before[i].image_path] = fs[after[j].image_path]
                               /\ snap[t].fs[before[i].text_path] = fs[after[j].text_path]

\* C27 (witness): the re-scan of a run without errors has paired 1.jpg with
\* 1.txt, which were a.jpg and its full-name caption a.jpg.txt, after the
\* left-over caption 1.txt went to the unpaired subfolder.
C27_Witness ==
    /\ Rescanned(Caller)
    /\ DOMAIN snap[Caller].fs = {N_a_jpg, N_a_jpg_txt, N_1_txt}
    /\ Len(file_infos[Caller]) = 1
    /\ file_infos[Caller][1].is_paired
    /\ file_infos[Caller][1].text_path = N_1_txt
    /\ fs[N_1_txt] = snap[Caller].fs[N_a_jpg_txt]
    /\ snap[Caller].fs[N_1_txt] \in Range(unp)


\* The downloader calls that returned so far, by their place in the log.
Returns(call) == { i \in 1..Len(calls) : calls[i].call = call }

\* C28: the downloader runs at most one download at a time: in every state at
\* most one download thread is between its creation and its end.  (A
\* start_download accepted while an earlier download has not finished creates
\* a second such thread, so the rejection the claim asks for is part of it.)
C28_OneDownloadAtATime == Cardinality({ w \in Workers : Active(w) }) <= 1

\* Only one start_download was called so far, and it has returned.
OneStart == Cardinality(Returns("start_download")) = 1 /\ Starting = {}

\* A cancel_download call that ended a running download has returned success.
CancelSucceeded ==
    \E i \in Returns("cancel_download") : calls[i].success /\ calls[i].message = "cancelled"

\* No download thread runs and no call is in progress or still to be made.
AtRest ==
    /\ \A w \in Workers : ~Active(w)
    /\ \A c \in Threads : pc[c] = "idle" /\ script[c] = <<>>

\* C29: once cancel_download has returned success for a running download, and
\* no other start_download was called, the status is never a completed or an
\* error status, and the downloader rests with is_downloading false and the
\* status of the cancellation.
C29_CancelledStaysCancelled ==
    (OneStart /\ CancelSucceeded) =>
        /\ status \notin {"complete", "error", "exception", "not_found"}
        /\ AtRest => (~is_downloading /\ status = "cancelled")

====
